---- MODULE Spec2Model ----
(***************************************************************************)
(* Model of the AI attendance tracker (heyyakku/Ai-attendance).            *)
(*                                                                         *)
(*   attendance_system_pro.py  the scanner: recognition loop, local CSV    *)
(*                             append, optional Firestore mirror           *)
(*   app.py                    web backend: add_attendance, load_attendance*)
(*   web_dashboard.py          second web variant: load_attendance,        *)
(*                             upload_attendance                           *)
(*   train_model.py            enrollment: mean of the face embeddings     *)
(*                                                                         *)
(* Text (CSV cells, formatted dates and times, user names) is a sequence   *)
(* of character codes, so that formatting, parsing and string comparison   *)
(* are computed and not assumed.                                           *)
(***************************************************************************)
EXTENDS Integers, Sequences, FiniteSets, TLC

\* ------------------------------------------------------------------ bounds
\* Instants the wall clock may advance past the first one (two instants a day).
MaxTick == 3
\* Rows each file (attendance, users, tasks), and documents each remote
\* collection, may hold (guards of the appending actions).
MaxRows == 2
\* Image files the enrollment folder may hold.
MaxImages == 3
\* Capture handles the web backend may create.
MaxHandles == 3
\* Rows the three files and the remote task collection may hold together
\* after the requests of one browser.
MaxStored == 4

\* --------------------------------------------------------------- constants
\* The similarity threshold 0.70, in hundredths.
Threshold == 70

VARIABLES
    clock,      \* the wall clock: the number of the current instant
    file,       \* attendance.csv: the data rows, each [Name, Date, Time] of text
    useFb,      \* USE_FIREBASE
    remote,     \* Firestore collection "attendance": documents in insertion order
    spc,        \* scanner: position in the recognition loop
    sim,        \* scanner: similarity of the face being processed (hundredths)
    sdate,      \* scanner: date (text)
    stime,      \* scanner: time (text)
    sdf,        \* scanner: df, the DataFrame read from the file
    allLow,     \* history: every face processed so far was at or below the threshold
    highDates,  \* history: the dates on which a face above the threshold was processed
    apc,        \* add_attendance: position ("idle", or "write" with df in hand)
    adf,        \* add_attendance: df
    atRiskA,    \* history: the row add_attendance wrote while the scanner held an unsaved df
    atRiskS,    \* history: the row the scanner wrote while add_attendance held an unsaved df
    loaded,     \* the value load_attendance returned to the last request
    lastAdd,    \* history: the record of the last add_attendance, while it is the last write
    facesDir,   \* enrollment: the folder faces_new (exists, and its files in walk order)
    modelDir,   \* enrollment: the directory "model" exists
    modelFile,  \* enrollment: the content of model/face_embedding.npy, or NoFile
    tpc,        \* enrollment: position in train_model.py
    ti,         \* enrollment: index of the next file of the walk
    embeddings, \* enrollment: the list `embeddings`
    tmsg,       \* enrollment: the last outcome line printed
    texit,      \* enrollment: the exit status of the process, or "running"
    users,      \* users.csv: the data rows, each [Username, FullName, Password, Created]
    rusers,     \* Firestore collection "users": the documents, by id
    session,    \* the session cookie of the browser: logged_in, username, role
    tasks,      \* tasks_local.csv: the data rows
    rtasks,     \* Firestore collection "tasks": documents in insertion order
    resp,       \* the request being answered: its route, its answer and the flashed message
    gpc,        \* assign_task: position ("idle", or "write" with df in hand)
    gdf,        \* assign_task: df
    upc,        \* update_task: position ("idle", or "write" with df in hand)
    udf,        \* update_task: df
    nAssigned,  \* history: the assign_task requests that saved their task locally
    camera,     \* app.py: the global `camera` (0 is None, else a handle)
    handles,    \* the capture handles created so far, in order of creation
    cpc,        \* per request thread: position in its camera request
    cam,        \* per request thread: the handle the call in progress holds
    cres,       \* per request thread: the answer of its last camera request
    diskFails,  \* the reads and writes of the local files may fail
    effect,     \* history: what the request being answered did to the stores
    wd_camera,  \* web_dashboard.py: the global `camera` (0 is None, else a handle)
    camera_lock,    \* web_dashboard.py: the thread that holds camera_lock, or ""
    camera_active,  \* web_dashboard.py: the global `camera_active`
    wpc,        \* web_dashboard.py, per request thread: position in its camera request
    wcam,       \* web_dashboard.py, per request thread: `cam` of its gen_frames
    s2pc,       \* second scanner process: position in the recognition loop
    s2date,     \* second scanner process: date (text)
    s2time,     \* second scanner process: time (text)
    s2df        \* second scanner process: df

storeVars == <<file, remote>>
scanVars == <<spc, sim, sdate, stime, sdf, allLow, highDates>>
markVars == <<apc, adf>>
raceVars == <<atRiskA, atRiskS>>
respVars == <<loaded, lastAdd>>
trainVars == <<facesDir, modelDir, modelFile, tpc, ti, embeddings, tmsg, texit>>
appVars == <<users, rusers, session, tasks, rtasks, resp>>
taskVars == <<gpc, gdf, upc, udf, nAssigned>>
camVars == <<camera, handles, cpc, cam, cres>>
lockVars == <<wd_camera, camera_lock, camera_active, wpc, wcam>>
scan2Vars == <<s2pc, s2date, s2time, s2df>>
moreVars == <<diskFails, effect, lockVars, scan2Vars>>
vars == <<clock, useFb, storeVars, scanVars, markVars, raceVars, respVars, trainVars,
          appVars, taskVars, camVars, moreVars>>

\* -------------------------------------------------------------------- text
Digit(n) == 48 + n

IsDigit(ch) == ch >= 48 /\ ch <= 57

DigitVal(ch) == ch - 48

TwoDigits(n) == <<Digit(n \div 10), Digit(n % 10)>>

FourDigits(n) ==
    <<Digit(n \div 1000), Digit((n \div 100) % 10), Digit((n \div 10) % 10), Digit(n % 10)>>

\* Python's str comparison: by code point, a proper prefix is smaller.
RECURSIVE LexLess(_, _)
LexLess(a, b) ==
    IF b = <<>> THEN FALSE
    ELSE IF a = <<>> THEN TRUE
    ELSE IF a[1] # b[1] THEN a[1] < b[1]
    ELSE LexLess(Tail(a), Tail(b))

\* "Aman", the identity the scanner records.
NameAman == <<65, 109, 97, 110>>
\* "bob" and "007": the user names of the employees.
NameBob == <<98, 111, 98>>
Name007 == <<48, 48, 55>>
Names == {NameBob, Name007}

\* str.lower on one character.
Lower(ch) == IF ch >= 65 /\ ch <= 90 THEN ch + 32 ELSE ch

\* ------------------------------------------------------------------- clock
\* The calendar date at instant c: 30 Nov 2026, then 1 Dec, 2 Dec, ...
DateOf(c) ==
    IF c \div 2 = 0 THEN [y |-> 2026, m |-> 11, d |-> 30]
    ELSE [y |-> 2026, m |-> 12, d |-> c \div 2]

\* Minutes since midnight at instant c: 09:00 in the morning, 15:40 in the afternoon.
MinutesOf(c) == 540 + 400 * (c % 2)

\* strftime("%d-%m-%Y")
FormatDate(dt) ==
    TwoDigits(dt.d) \o <<45>> \o TwoDigits(dt.m) \o <<45>> \o FourDigits(dt.y)

Hour12(h) == IF h % 12 = 0 THEN 12 ELSE h % 12

AmPm(h) == IF h < 12 THEN <<65, 77>> ELSE <<80, 77>>

\* strftime("%I:%M %p")
FormatTimeHM(mins) ==
    TwoDigits(Hour12(mins \div 60)) \o <<58>> \o TwoDigits(mins % 60)
        \o <<32>> \o AmPm(mins \div 60)

\* strftime("%I:%M:%S %p"); the model's clock has whole minutes
FormatTimeHMS(mins) ==
    TwoDigits(Hour12(mins \div 60)) \o <<58>> \o TwoDigits(mins % 60)
        \o <<58>> \o TwoDigits(0) \o <<32>> \o AmPm(mins \div 60)

\* --------------------------------------------------------------------- CSV
Cols == {"Name", "Date", "Time"}

IsIntText(t) == t # <<>> /\ \A i \in 1..Len(t) : IsDigit(t[i])

\* The decimal text of the integer a digit string denotes: no leading zeros.
RECURSIVE Canon(_)
Canon(t) == IF Len(t) > 1 /\ t[1] = 48 THEN Canon(Tail(t)) ELSE t

\* A DataFrame value: a str, or an int held as its decimal text.
StrVal(t) == [ty |-> "str", tx |-> t]

IntVal(t) == [ty |-> "int", tx |-> Canon(t)]

\* pandas infers int64 for a column all of whose cells are integers.
ColIsInt(f, c) == f # <<>> /\ \A i \in 1..Len(f) : IsIntText(f[i][c])

\* pd.read_csv(path): one row per line, each column typed as a whole.
ReadCsv(f) ==
    [i \in 1..Len(f) |->
        [c \in Cols |-> IF ColIsInt(f, c) THEN IntVal(f[i][c]) ELSE StrVal(f[i][c])]]

\* df.to_csv(path, index=False): every value as its text.
ToCsv(df) == [i \in 1..Len(df) |-> [c \in Cols |-> df[i][c].tx]]

\* df.loc[len(df)] = [name, date, time]
AppendRow(df, name, date, time) ==
    Append(df, [Name |-> StrVal(name), Date |-> StrVal(date), Time |-> StrVal(time)])

\* to_csv opens the file for writing and writes df: the whole file is replaced
\* by df, whatever the file holds at that moment.
\* (mutant) a true append of df's last row to the file as it is now
RewriteAppending(cur, df) ==
    IF df = <<>> THEN cur ELSE Append(cur, ToCsv(df)[Len(df)])

Rewrite(cur, df) == ToCsv(df)

\* ------------------------------------------------------- history bookkeeping
CountRow(f, row) == Cardinality({i \in 1..Len(f) : f[i] = row})

LastRow(f) == f[Len(f)]

NoRow == [set |-> FALSE, row |-> <<>>, n |-> 0]

\* The row just written and the number of its copies in the file.
AtRisk(f, row) == [set |-> TRUE, row |-> row, n |-> CountRow(f, row)]

NoLoad == [kind |-> "none", variant |-> "", name |-> <<>>, from |-> <<>>, to |-> <<>>,
           merged |-> FALSE, rows |-> <<>>]

NoAdd == [set |-> FALSE, name |-> <<>>, date |-> <<>>, time |-> <<>>, before |-> <<>>]

\* ----------------------------------------------------------------- scanner
\* (mutant) the comparison written as >=
AcceptsAtThreshold(s) == s >= Threshold

\* similarity > 0.70
Accepts(s) == s > Threshold

\* (mutant) the two masks joined with | instead of &
AlreadyMarkedEither(df, date) ==
    \E i \in 1..Len(df) : df[i].Name = StrVal(NameAman) \/ df[i].Date = StrVal(date)

\* ((df["Name"]=="Aman") & (df["Date"]==date)).any()
AlreadyMarked(df, date) ==
    \E i \in 1..Len(df) : df[i].Name = StrVal(NameAman) /\ df[i].Date = StrVal(date)

\* The similarities a face may have, in hundredths (cosine similarity is in [-1, 1]).
Sims == {69, 70, 71}

\* (mutant) a failed mirror write rolls the local append back
FileAfterMirrorRollback(f, ok) ==
    IF ok \/ f = <<>> THEN f ELSE SubSeq(f, 1, Len(f) - 1)

\* The file after an attempt to mirror a record: the try/except around the
\* Firestore add touches no local state.
FileAfterMirror(f, ok) == f

\* One face of one frame, lines 46-71: crop, embed, compare, label.
ScanFace ==
    /\ spc = "frame"
    /\ \E s \in Sims :
        /\ sim' = s
        /\ allLow' = (allLow /\ s <= Threshold)
        /\ highDates' = IF s > Threshold
                        THEN highDates \cup {FormatDate(DateOf(clock))}
                        ELSE highDates
        /\ IF Accepts(s)
           THEN /\ sdate' = FormatDate(DateOf(clock))
                /\ stime' = FormatTimeHMS(MinutesOf(clock))
                /\ spc' = "read"
           ELSE UNCHANGED <<sdate, stime, spc>>
    /\ UNCHANGED <<trainVars, appVars, taskVars, camVars, moreVars>>
    /\ UNCHANGED <<clock, useFb, storeVars, sdf, markVars, raceVars, respVars>>

\* Lines 74-76: read the file, test for today's record, append in memory.
ScanRead ==
    /\ spc = "read"
    /\ atRiskS' = NoRow
    /\ LET df == ReadCsv(file) IN
        IF AlreadyMarked(df, sdate)
        THEN /\ spc' = "frame"
             /\ sdf' = <<>>
        ELSE /\ Len(file) < MaxRows
             /\ sdf' = AppendRow(df, NameAman, sdate, stime)
             /\ spc' = "write"
    /\ UNCHANGED <<clock, useFb, storeVars, sim, sdate, stime, allLow, highDates>>
    /\ UNCHANGED <<trainVars, appVars, taskVars, camVars, markVars, atRiskA, respVars, moreVars>>

\* Line 77: rewrite the whole file from df.
ScanWrite ==
    /\ spc = "write"
    /\ file' = Rewrite(file, sdf)
    /\ sdf' = <<>>
    /\ spc' = IF useFb THEN "mirror" ELSE "frame"
    /\ atRiskS' = IF apc = "write" THEN AtRisk(file', LastRow(file')) ELSE NoRow
    /\ UNCHANGED <<clock, useFb, remote, sim, sdate, stime, allLow, highDates>>
    /\ UNCHANGED <<trainVars, appVars, taskVars, camVars, markVars, atRiskA, respVars, moreVars>>

\* Lines 81-91: add the document to Firestore; an exception is printed.
ScanMirror ==
    /\ spc = "mirror"
    /\ \E ok \in BOOLEAN :
        /\ ok => Len(remote) < MaxRows
        /\ remote' = IF ok
                     THEN Append(remote, [name |-> NameAman, date |-> sdate, time |-> stime])
                     ELSE remote
        /\ file' = FileAfterMirror(file, ok)
    /\ spc' = "frame"
    /\ UNCHANGED <<clock, useFb, sim, sdate, stime, sdf, allLow, highDates>>
    /\ UNCHANGED <<trainVars, appVars, taskVars, camVars, markVars, raceVars, respVars, moreVars>>

\* datetime.now() moves on, by one instant or by two.
Tick ==
    /\ \E n \in 1..2 :
        /\ clock + n <= MaxTick
        /\ clock' = clock + n
    /\ UNCHANGED <<trainVars, appVars, taskVars, camVars, moreVars>>
    /\ UNCHANGED <<useFb, storeVars, scanVars, markVars, raceVars, respVars>>

\* ------------------------------- a second scanner (attendance_dashboard.py)
\* start_scanner, lines 154-166: Launch Scanner starts attendance_system_pro.py
\* in a new process and looks for no running one. Two processes are followed
\* here: the one of the actions above, and the one this click starts.
Off == "off"

StartScanner ==
    /\ s2pc = Off
    /\ s2pc' = "frame"
    /\ UNCHANGED <<s2date, s2time, s2df, diskFails, effect, lockVars>>
    /\ UNCHANGED <<clock, useFb, storeVars, scanVars, markVars, raceVars, respVars>>
    /\ UNCHANGED <<trainVars, appVars, taskVars, camVars>>

\* Lines 49-72 in the second process: a face is compared, and the frame's date
\* and time are taken when it is accepted.
Scan2Face ==
    /\ s2pc = "frame"
    /\ \E s \in Sims :
        IF Accepts(s)
        THEN /\ s2date' = FormatDate(DateOf(clock))
             /\ s2time' = FormatTimeHMS(MinutesOf(clock))
             /\ s2pc' = "read"
        ELSE UNCHANGED <<s2date, s2time, s2pc>>
    /\ UNCHANGED <<s2df, diskFails, effect, lockVars>>
    /\ UNCHANGED <<clock, useFb, storeVars, scanVars, markVars, raceVars, respVars>>
    /\ UNCHANGED <<trainVars, appVars, taskVars, camVars>>

\* Lines 74-76 in the second process.
Scan2Read ==
    /\ s2pc = "read"
    /\ LET df == ReadCsv(file) IN
        IF AlreadyMarked(df, s2date)
        THEN /\ s2pc' = "frame"
             /\ s2df' = <<>>
        ELSE /\ Len(file) < MaxRows
             /\ s2df' = AppendRow(df, NameAman, s2date, s2time)
             /\ s2pc' = "write"
    /\ UNCHANGED <<s2date, s2time, diskFails, effect, lockVars>>
    /\ UNCHANGED <<clock, useFb, storeVars, scanVars, markVars, raceVars, respVars>>
    /\ UNCHANGED <<trainVars, appVars, taskVars, camVars>>

\* Line 77 in the second process.
Scan2Write ==
    /\ s2pc = "write"
    /\ file' = Rewrite(file, s2df)
    /\ s2df' = <<>>
    /\ s2pc' = IF useFb THEN "mirror" ELSE "frame"
    /\ UNCHANGED <<s2date, s2time, diskFails, effect, lockVars>>
    /\ UNCHANGED <<clock, useFb, remote, scanVars, markVars, raceVars, respVars>>
    /\ UNCHANGED <<trainVars, appVars, taskVars, camVars>>

\* Lines 81-91 in the second process.
Scan2Mirror ==
    /\ s2pc = "mirror"
    /\ \E ok \in BOOLEAN :
        /\ ok => Len(remote) < MaxRows
        /\ remote' = IF ok
                     THEN Append(remote, [name |-> NameAman, date |-> s2date, time |-> s2time])
                     ELSE remote
        /\ file' = FileAfterMirror(file, ok)
    /\ s2pc' = "frame"
    /\ UNCHANGED <<s2date, s2time, s2df, diskFails, effect, lockVars>>
    /\ UNCHANGED <<clock, useFb, scanVars, markVars, raceVars, respVars>>
    /\ UNCHANGED <<trainVars, appVars, taskVars, camVars>>

\* ------------------------------------------------ enrollment (train_model.py)
\* An embedding is the vector FaceNet returns for a face crop, here of two
\* integer components; the arithmetic on it is exact.
Dim == 1..2
E1 == <<2, 0>>
E2 == <<0, 4>>

\* A detected face: the embedding of its crop, or ok = FALSE when cropping the
\* bounding box, resizing or embedding raises.
Face(e) == [emb |-> e, ok |-> TRUE]
BadFace == [emb |-> <<0, 0>>, ok |-> FALSE]

\* valid_ext = (".jpg", ".jpeg", ".png")
valid_ext == {<<46, 106, 112, 103>>, <<46, 106, 112, 101, 103>>, <<46, 112, 110, 103>>}

LowerText(t) == [i \in 1..Len(t) |-> Lower(t[i])]

EndsWith(t, suf) ==
    Len(t) >= Len(suf) /\ SubSeq(t, Len(t) - Len(suf) + 1, Len(t)) = suf

\* img_name.lower().endswith(valid_ext)
HasValidExt(name) == \E ext \in valid_ext : EndsWith(LowerText(name), ext)

\* The files a walk of faces_new can meet: a.JPG with one face, b.png with two
\* faces, c.jpeg with no face, d.jpg that cannot be opened, e.png whose first
\* face cannot be cropped, and f.bmp, a picture with a face under an extension
\* that is not in valid_ext.
ImgOne == [name |-> <<97, 46, 74, 80, 71>>, opens |-> TRUE, faces |-> <<Face(E1)>>]
ImgTwo == [name |-> <<98, 46, 112, 110, 103>>, opens |-> TRUE,
           faces |-> <<Face(E2), Face(E1)>>]
ImgNone == [name |-> <<99, 46, 106, 112, 101, 103>>, opens |-> TRUE, faces |-> <<>>]
ImgBroken == [name |-> <<100, 46, 106, 112, 103>>, opens |-> FALSE, faces |-> <<>>]
ImgBadCrop == [name |-> <<101, 46, 112, 110, 103>>, opens |-> TRUE,
               faces |-> <<BadFace, Face(E1)>>]
ImgBmp == [name |-> <<102, 46, 98, 109, 112>>, opens |-> TRUE, faces |-> <<Face(E2)>>]

Images == {ImgOne, ImgTwo, ImgNone, ImgBroken, ImgBadCrop, ImgBmp}

NoFolder == [exists |-> FALSE, files |-> <<>>]

Folders ==
    {NoFolder} \cup
    {[exists |-> TRUE, files |-> fs] :
        fs \in UNION {[1..n -> Images] : n \in 0..MaxImages}}

\* model/face_embedding.npy: absent, or a vector kept as the exact quotient
\* num / den, component by component.
NoFile == [num |-> <<0, 0>>, den |-> 0]
OldRef == [num |-> <<3, 3>>, den |-> 1]

\* The states of the model directory before a run: no directory, an empty
\* directory, a directory holding an earlier reference embedding.
Models == {[dir |-> FALSE, file |-> NoFile], [dir |-> TRUE, file |-> NoFile],
           [dir |-> TRUE, file |-> OldRef]}

LastFace(faces) == faces[Len(faces)]

\* faces[0]
FirstFace(faces) == faces[1]

\* The outcome of the loop body for one file: the line printed ("" when the
\* file is passed over silently) and the embedding appended, if any.
ProcessImage(img) ==
    IF ~HasValidExt(img.name) THEN [msg |-> "", add |-> <<>>]
    ELSE IF ~img.opens THEN [msg |-> "Error", add |-> <<>>]
    ELSE IF Len(img.faces) = 0 THEN [msg |-> "No face detected", add |-> <<>>]
    ELSE IF ~FirstFace(img.faces).ok THEN [msg |-> "Error", add |-> <<>>]
    ELSE [msg |-> "Face detected & embedded successfully",
          add |-> <<FirstFace(img.faces).emb>>]

RECURSIVE SumVec(_)
SumVec(embs) ==
    IF embs = <<>> THEN <<0, 0>>
    ELSE [i \in Dim |-> embs[1][i] + SumVec(Tail(embs))[i]]

\* np.mean(embeddings, axis=0)
Mean(embs) == [num |-> SumVec(embs), den |-> Len(embs)]

NeverEmpty(embs) == FALSE

\* len(embeddings) == 0
NothingEmbedded(embs) == Len(embs) = 0

\* The check of the folder, before the walk.
TrainStart ==
    /\ tpc = "start"
    /\ IF ~facesDir.exists
           THEN /\ tmsg' = "faces_new folder not found!"
                /\ tpc' = "exited"
                /\ texit' = 0
           ELSE /\ tpc' = "walk"
                /\ UNCHANGED <<tmsg, texit>>
    /\ UNCHANGED <<facesDir, modelDir, modelFile, ti, embeddings>>
    /\ UNCHANGED <<clock, useFb, storeVars, scanVars, markVars, raceVars, respVars>>
    /\ UNCHANGED <<appVars, taskVars, camVars, moreVars>>

\* One iteration of the loop over the files of the walk.
TrainImage ==
    /\ tpc = "walk"
    /\ ti <= Len(facesDir.files)
    /\ LET r == ProcessImage(facesDir.files[ti])
       IN /\ embeddings' = embeddings \o r.add
          /\ tmsg' = IF r.msg = "" THEN tmsg ELSE r.msg
    /\ ti' = ti + 1
    /\ UNCHANGED <<facesDir, modelDir, modelFile, tpc, texit>>
    /\ UNCHANGED <<clock, useFb, storeVars, scanVars, markVars, raceVars, respVars>>
    /\ UNCHANGED <<appVars, taskVars, camVars, moreVars>>

\* After the walk: the check for an empty list, the mean and the save.
TrainSave ==
    /\ tpc = "walk"
    /\ ti > Len(facesDir.files)
    /\ IF NothingEmbedded(embeddings)
           THEN /\ tmsg' = "ERROR: No valid faces embedded!"
                /\ UNCHANGED <<modelDir, modelFile>>
           ELSE /\ modelDir' = TRUE
                /\ modelFile' = Mean(embeddings)
                /\ tmsg' = "TRAINING COMPLETE!"
    /\ tpc' = "exited"
    /\ texit' = 0
    /\ UNCHANGED <<facesDir, ti, embeddings>>
    /\ UNCHANGED <<clock, useFb, storeVars, scanVars, markVars, raceVars, respVars>>
    /\ UNCHANGED <<appVars, taskVars, camVars, moreVars>>

\* ------------------------------------------------------------ specifications
InitAttendance ==
    /\ clock = 0
    /\ file = <<>>
    /\ useFb \in BOOLEAN
    /\ remote = <<>>
    /\ spc = "frame"
    /\ sim = 0
    /\ sdate = <<>>
    /\ stime = <<>>
    /\ sdf = <<>>
    /\ allLow = TRUE
    /\ highDates = {}
    /\ apc = "idle"
    /\ adf = <<>>
    /\ atRiskA = NoRow
    /\ atRiskS = NoRow
    /\ loaded = NoLoad
    /\ lastAdd = NoAdd

\* ------------------------------------------------- add_attendance (app.py)
\* Lines 125-129: the row [name, today, now] appended to df.
AddAttendanceDf(df, name, c) ==
    AppendRow(df, name, FormatDate(DateOf(c)), FormatTimeHM(MinutesOf(c)))

\* mark_attendance (POST) -> add_attendance(session username), lines 121-129:
\* read the file and append the row in memory.
MarkRead ==
    /\ apc = "idle"
    /\ Len(file) < MaxRows
    /\ \E name \in Names : adf' = AddAttendanceDf(ReadCsv(file), name, clock)
    /\ apc' = "write"
    /\ atRiskA' = NoRow
    /\ UNCHANGED <<trainVars, appVars, taskVars, camVars, moreVars>>
    /\ UNCHANGED <<clock, useFb, storeVars, scanVars, atRiskS, respVars>>

\* Line 130: rewrite the whole file from df.
MarkWrite ==
    /\ apc = "write"
    /\ file' = Rewrite(file, adf)
    /\ adf' = <<>>
    /\ apc' = "idle"
    /\ atRiskA' = IF spc = "write" THEN AtRisk(file', LastRow(file')) ELSE NoRow
    /\ UNCHANGED <<trainVars, appVars, taskVars, camVars, moreVars>>
    /\ UNCHANGED <<clock, useFb, remote, scanVars, atRiskS, respVars>>

\* ------------------------------------------- load_attendance (both variants)
\* pandas' NaT.
NaT == [y |-> 0, m |-> 0, d |-> 0]

IsLeap(y) == (y % 4 = 0 /\ y % 100 # 0) \/ y % 400 = 0

DaysIn(m, y) ==
    IF m \in {4, 6, 9, 11} THEN 30
    ELSE IF m = 2 THEN (IF IsLeap(y) THEN 29 ELSE 28)
    ELSE 31

ValidDate(dt) == dt.m \in 1..12 /\ dt.d >= 1 /\ dt.d <= DaysIn(dt.m, dt.y)

Num2(a, b) == 10 * DigitVal(a) + DigitVal(b)

Num4(a, b, c, d) == 100 * Num2(a, b) + Num2(c, d)

\* (mutant) to_datetime without dayfirst=True: the first field is the month,
\* and the fields are swapped back only when that gives no date.
ParseMonthFirst(t) ==
    IF Len(t) = 10 /\ t[3] = 45 /\ t[6] = 45
        /\ \A i \in {1, 2, 4, 5, 7, 8, 9, 10} : IsDigit(t[i])
    THEN LET mf == [y |-> Num4(t[7], t[8], t[9], t[10]), m |-> Num2(t[1], t[2]),
                    d |-> Num2(t[4], t[5])]
             df == [y |-> mf.y, m |-> mf.d, d |-> mf.m]
         IN IF ValidDate(mf) THEN mf ELSE IF ValidDate(df) THEN df ELSE NaT
    ELSE NaT

\* pd.to_datetime(text, dayfirst=True, errors="coerce") of a text DD-MM-YYYY;
\* the other texts of the model are no dates at all and coerce to NaT.
ParseDayFirst(t) ==
    IF Len(t) = 10 /\ t[3] = 45 /\ t[6] = 45
        /\ \A i \in {1, 2, 4, 5, 7, 8, 9, 10} : IsDigit(t[i])
    THEN LET dt == [y |-> Num4(t[7], t[8], t[9], t[10]), m |-> Num2(t[4], t[5]),
                    d |-> Num2(t[1], t[2])]
         IN IF ValidDate(dt) THEN dt ELSE NaT
    ELSE NaT

\* df["DateObj"] of one row.
DateObj(r) == IF r.Date.ty = "str" THEN ParseDayFirst(r.Date.tx) ELSE NaT

\* pd.to_datetime(text) of a filter bound YYYY-MM-DD (what a date input
\* submits); NaT stands for the exception any other text raises.
ParseIso(t) ==
    IF Len(t) = 10 /\ t[5] = 45 /\ t[8] = 45
        /\ \A i \in {1, 2, 3, 4, 6, 7, 9, 10} : IsDigit(t[i])
    THEN LET dt == [y |-> Num4(t[1], t[2], t[3], t[4]), m |-> Num2(t[6], t[7]),
                    d |-> Num2(t[9], t[10])]
         IN IF ValidDate(dt) THEN dt ELSE NaT
    ELSE NaT

\* The order of Timestamps.
DateKey(dt) == dt.y * 10000 + dt.m * 100 + dt.d

\* The text a date input submits for a date.
FormatIso(dt) ==
    FourDigits(dt.y) \o <<45>> \o TwoDigits(dt.m) \o <<45>> \o TwoDigits(dt.d)


\* str.contains(pat, case=False) for a pattern of letters and digits.
Contains(t, pat) ==
    \E k \in 0..(Len(t) - Len(pat)) :
        \A i \in 1..Len(pat) : Lower(t[k + i]) = Lower(pat[i])

\* df["Name"].str needs a column of strings: a column of integers only raises.
NameFilterRaises(rows, pat) ==
    pat # <<>> /\ rows # <<>> /\ \A i \in 1..Len(rows) : rows[i].Name.ty = "int"

\* df[df["Name"].str.contains(name, case=False, na=False)]
FilterName(rows, pat) ==
    IF pat = <<>> THEN rows
    ELSE SelectSeq(rows, LAMBDA r : r.Name.ty = "str" /\ Contains(r.Name.tx, pat))

\* (mutant) the lower bound exclusive
FilterFromExclusive(rows, from) ==
    IF from = <<>> \/ ParseIso(from) = NaT THEN rows
    ELSE SelectSeq(rows, LAMBDA r :
            DateObj(r) # NaT /\ DateKey(DateObj(r)) > DateKey(ParseIso(from)))

\* df[df["DateObj"] >= pd.to_datetime(d_from)], skipped when the bound is
\* empty or does not parse; a comparison with NaT is False.
FilterFrom(rows, from) ==
    IF from = <<>> \/ ParseIso(from) = NaT THEN rows
    ELSE SelectSeq(rows, LAMBDA r :
            DateObj(r) # NaT /\ DateKey(DateObj(r)) >= DateKey(ParseIso(from)))

\* df[df["DateObj"] <= pd.to_datetime(d_to)]
FilterTo(rows, to) ==
    IF to = <<>> \/ ParseIso(to) = NaT THEN rows
    ELSE SelectSeq(rows, LAMBDA r :
            DateObj(r) # NaT /\ DateKey(DateObj(r)) <= DateKey(ParseIso(to)))

\* sort_values(by=["DateObj","Time"], ascending=[False, False]): a comes
\* before b when its date is later (NaT last), or the dates tie and its Time
\* string is the greater one.
SortsBefore(a, b) ==
    LET da == DateObj(a)
        db == DateObj(b)
    IN IF da # db
       THEN da # NaT /\ (db = NaT \/ DateKey(da) > DateKey(db))
       ELSE LexLess(b.Time.tx, a.Time.tx)

RECURSIVE InsertRow(_, _)
InsertRow(sorted, x) ==
    IF sorted = <<>> THEN <<x>>
    ELSE IF SortsBefore(x, sorted[1]) THEN <<x>> \o sorted
    ELSE <<sorted[1]>> \o InsertRow(Tail(sorted), x)

\* The sort is stable: rows that tie keep their order.
RECURSIVE SortRows(_)
SortRows(rows) ==
    IF rows = <<>> THEN <<>>
    ELSE InsertRow(SortRows(SubSeq(rows, 1, Len(rows) - 1)), rows[Len(rows)])

\* The record app.py builds from a Firestore document.
DocRecord(doc) ==
    [Name |-> StrVal(doc.name), Date |-> StrVal(doc.date), Time |-> StrVal(doc.time)]

\* app.py lines 148-158: a document is added unless a record with the same
\* Name, Date and Time is there already.
RECURSIVE MergeDocs(_, _)
MergeDocs(all, docs) ==
    IF docs = <<>> THEN all
    ELSE LET rec == DocRecord(docs[1])
         IN MergeDocs(IF \E i \in 1..Len(all) : all[i] = rec THEN all ELSE Append(all, rec),
                      Tail(docs))

\* order_by("timestamp", DESCENDING): the newest document first.
Newest(docs) == [i \in 1..Len(docs) |-> docs[Len(docs) + 1 - i]]

\* app.py lines 133-160: the local records, then the remote ones.
AllRecords(f, docs, fb, fbOk) ==
    IF fb /\ fbOk THEN MergeDocs(ReadCsv(f), Newest(docs)) ELSE ReadCsv(f)

\* Lines 171-190 (app.py), 119-140 (web_dashboard.py): filter, then sort.
FilterAndSort(rows, flt) ==
    SortRows(FilterTo(FilterFrom(FilterName(rows, flt.name), flt.from), flt.to))

\* What a request got back, with the filters it sent; merged records whether
\* the remote documents were read.
Loaded(variant, flt, merged, rows) ==
    [kind |-> "ok", variant |-> variant, name |-> flt.name, from |-> flt.from,
     to |-> flt.to, merged |-> merged, rows |-> rows]

\* The exception of the .str accessor is not caught: the request fails.
LoadRaised(variant, flt, merged) ==
    [kind |-> "error", variant |-> variant, name |-> flt.name, from |-> flt.from,
     to |-> flt.to, merged |-> merged, rows |-> <<>>]

\* app.py load_attendance(filters)
LoadAttendanceApp(f, docs, fb, fbOk, flt) ==
    LET all == AllRecords(f, docs, fb, fbOk)
    IN IF all = <<>> THEN Loaded("app", flt, fb /\ fbOk, <<>>)
       ELSE IF NameFilterRaises(all, flt.name) THEN LoadRaised("app", flt, fb /\ fbOk)
       ELSE Loaded("app", flt, fb /\ fbOk, FilterAndSort(all, flt))

\* web_dashboard.py load_attendance(filters)
LoadAttendanceWeb(f, flt) ==
    LET df == ReadCsv(f)
    IN IF NameFilterRaises(df, flt.name) THEN LoadRaised("web", flt, FALSE)
       ELSE Loaded("web", flt, FALSE, FilterAndSort(df, flt))

\* The filters a request may carry: a name pattern ("" or "a") and the two
\* date bounds ("" or a date of the clock's range).
FilterBounds == {<<>>} \cup {FormatIso(DateOf(c)) : c \in 0..MaxTick}

Filters == [name : {<<>>, <<97>>}, from : FilterBounds, to : FilterBounds]

\* ------------------------------------- upload_attendance (web_dashboard.py)
\* Rows an uploaded table may hold: one with a Date that is no date ("tbd"),
\* one that repeats the scanner's identity on the first day.
UpNoDate == [Name |-> NameBob, Date |-> <<116, 98, 100>>, Time |-> FormatTimeHM(MinutesOf(0))]

UpAman == [Name |-> NameAman, Date |-> FormatDate(DateOf(0)), Time |-> FormatTimeHM(MinutesOf(1))]

\* What a request may upload: nothing, a file that does not parse, a table
\* without the three columns, or a table.
Uploads ==
    {[kind |-> k, rows |-> <<>>] : k \in {"nofile", "unreadable", "nocols"}}
        \cup {[kind |-> "table", rows |-> t] : t \in {<<UpNoDate>>, <<UpAman>>, <<UpAman, UpNoDate>>}}

\* Lines 244-245: pd.concat([old, new_df[["Name","Date","Time"]]])
Merged(f, up) == ReadCsv(f) \o ReadCsv(up)

\* ---------------------------------------------------- requests one at a time
\* POST /mark-attendance, whole: add_attendance reads, appends and rewrites.
WebMark ==
    /\ loaded = NoLoad
    /\ Len(file) < MaxRows
    /\ \E name \in Names :
        /\ file' = Rewrite(file, AddAttendanceDf(ReadCsv(file), name, clock))
        /\ lastAdd' = [set |-> TRUE, name |-> name, date |-> FormatDate(DateOf(clock)),
                       time |-> FormatTimeHM(MinutesOf(clock)), before |-> file]
    /\ UNCHANGED <<trainVars, appVars, taskVars, camVars, moreVars>>
    /\ UNCHANGED <<clock, useFb, remote, scanVars, markVars, raceVars, loaded>>

\* One iteration of the scanner for a face above the threshold, whole (lines
\* 69-91); its locals are dead once the iteration is over.
WebScan ==
    /\ loaded = NoLoad
    /\ Len(file) < MaxRows
    /\ LET date == FormatDate(DateOf(clock))
           df == ReadCsv(file)
       IN /\ ~AlreadyMarked(df, date)
          /\ file' = Rewrite(file, AppendRow(df, NameAman, date, FormatTimeHMS(MinutesOf(clock))))
          /\ \E ok \in BOOLEAN :
                /\ ok => useFb /\ Len(remote) < MaxRows
                /\ remote' = IF ok
                             THEN Append(remote, [name |-> NameAman, date |-> date,
                                                  time |-> FormatTimeHMS(MinutesOf(clock))])
                             ELSE remote
    /\ lastAdd' = NoAdd
    /\ UNCHANGED <<trainVars, appVars, taskVars, camVars, moreVars>>
    /\ UNCHANGED <<clock, useFb, scanVars, markVars, raceVars, loaded>>

\* POST /upload of one upload, whole (lines 229-250): the three early answers
\* (no file, lines 231-233; a file that does not parse, lines 248-249; a table
\* without the columns, lines 240-242) come before any access to the file.
UploadAttendance(up) ==
    /\ loaded = NoLoad
    /\ IF up.kind = "table"
       THEN /\ Len(file) + Len(up.rows) <= MaxRows
            /\ file' = Rewrite(file, Merged(file, up.rows))
            /\ lastAdd' = NoAdd
       ELSE UNCHANGED <<file, lastAdd>>
    /\ UNCHANGED <<trainVars, appVars, taskVars, camVars, moreVars>>
    /\ UNCHANGED <<clock, useFb, remote, scanVars, markVars, raceVars, loaded>>

WebUpload == \E up \in Uploads : UploadAttendance(up)

\* A request that calls load_attendance (report, dashboard, export), up to the
\* return of load_attendance.
WebLoad ==
    /\ loaded = NoLoad
    /\ \E flt \in Filters :
        \/ \E fbOk \in BOOLEAN :
            loaded' = LoadAttendanceApp(file, remote, useFb, fbOk, flt)
        \/ loaded' = LoadAttendanceWeb(file, flt)
    /\ UNCHANGED <<trainVars, appVars, taskVars, camVars, moreVars>>
    /\ UNCHANGED <<clock, useFb, storeVars, scanVars, markVars, raceVars, lastAdd>>

\* The rest of that request: the records are rendered and the response sent.
WebRespond ==
    /\ loaded # NoLoad
    /\ loaded' = NoLoad
    /\ UNCHANGED <<trainVars, appVars, taskVars, camVars, moreVars>>
    /\ UNCHANGED <<clock, useFb, storeVars, scanVars, markVars, raceVars, lastAdd>>

\* ------------------------------------------ users and sessions (app.py)
\* ADMIN_USER = "admin", ADMIN_PASS = "1234"
ADMIN_USER == <<97, 100, 109, 105, 110>>
ADMIN_PASS == <<49, 50, 51, 52>>

\* The passwords a form may carry: "pw", the password of every employee of the
\* model, and the administrator's; each is a wrong password for the others.
Pw == <<112, 119>>
Passwords == {Pw, ADMIN_PASS}

\* The ways a call of the remote store may go (TRUE: it answers); it is
\* called only when USE_FIREBASE is set.
CloudAnswers == IF useFb THEN BOOLEAN ELSE {FALSE}

\* hash_password: the SHA-256 hex digest, kept as the text "h" followed by the
\* password, which like the digest is a function of the password, differs
\* from it and is different for different passwords.
hash_password(pwd) == <<104>> \o pwd

UserCols == {"Username", "FullName", "Password", "Created"}

\* pd.read_csv of a file with the columns cols, each column typed as a whole.
ReadTable(f, cols) ==
    [i \in 1..Len(f) |->
        [c \in cols |-> IF ColIsInt(f, c) THEN IntVal(f[i][c]) ELSE StrVal(f[i][c])]]

\* A DataFrame that keeps its index: each row with the label read_csv gave it
\* (0 for the first line).
Labelled(df) == [i \in 1..Len(df) |-> [idx |-> i - 1, row |-> df[i]]]

\* df.drop_duplicates(subset=["Username"], keep="last"): the index is not reset.
DropDuplicates(ldf) ==
    SelectSeq(ldf, LAMBDA x :
        ~\E j \in 1..Len(ldf) :
            /\ ldf[j].idx > x.idx
            /\ ldf[j].row.Username = x.row.Username)

\* safe_read_users(), for a users file that exists, parses and has no empty
\* Username cell.
safe_read_users(f) == DropDuplicates(Labelled(ReadTable(f, UserCols)))

\* uname in df["Username"].values: a str equals no int.
UserKnown(ldf, uname) == \E i \in 1..Len(ldf) : ldf[i].row.Username = StrVal(uname)

\* df.loc[label] = row: the row with that label is replaced, or the row is
\* added under that label when no row has it.
LocSet(ldf, label, row) ==
    IF \E i \in 1..Len(ldf) : ldf[i].idx = label
    THEN [i \in 1..Len(ldf) |-> IF ldf[i].idx = label THEN [idx |-> label, row |-> row]
                                 ELSE ldf[i]]
    ELSE Append(ldf, [idx |-> label, row |-> row])

\* df.to_csv(path, index=False) of a DataFrame with labels, or without.
WriteLabelled(ldf) ==
    [i \in 1..Len(ldf) |-> [c \in DOMAIN ldf[i].row |-> ldf[i].row[c].tx]]

WriteTable(df) == [i \in 1..Len(df) |-> [c \in DOMAIN df[i] |-> df[i][c].tx]]

\* The row add_user writes: [uname, fname, hashed, today].
UserRow(uname, fname, pwd, c) ==
    [Username |-> StrVal(uname), FullName |-> StrVal(fname),
     Password |-> StrVal(hash_password(pwd)), Created |-> StrVal(FormatDate(DateOf(c)))]

\* document(id).set(doc) on a collection kept as a set of documents.
DocSet(docs, doc) == {d \in docs : d.id # doc.id} \cup {doc}

NoSession == [logged_in |-> FALSE, username |-> <<>>, role |-> ""]

\* What a request carried, for the routes that take a user, a task or a status.
Arg(user, task, status) == [user |-> user, task |-> task, status |-> status]

NoResp == [op |-> "", answer |-> "", flash |-> "", arg |-> Arg(<<>>, <<>>, <<>>)]

Answer(op, answer, flash, arg) ==
    [op |-> op, answer |-> answer, flash |-> flash, arg |-> arg]

\* The names a form may carry as a user name.
Usernames == Names \cup {ADMIN_USER}

\* login(), lines 266-304, for the form (u, p): the check that lets the form
\* in ("admin", "local", "cloud") or "none"; cloudOk says that the Firestore
\* read of line 292 answers.
LoginVia(f, docs, fb, cloudOk, u, p) ==
    LET ldf == safe_read_users(f)
        row == ldf[CHOOSE i \in 1..Len(ldf) :
                     /\ ldf[i].row.Username = StrVal(u)
                     /\ \A j \in 1..(i - 1) : ldf[j].row.Username # StrVal(u)].row
    IN IF u = ADMIN_USER /\ p = ADMIN_PASS THEN "admin"
       ELSE IF UserKnown(ldf, u) /\ row.Password.tx # <<>>
                 /\ hash_password(p) = row.Password.tx THEN "local"
       ELSE IF fb /\ cloudOk
                 /\ \E d \in docs : d.id = u /\ d.password = hash_password(p) THEN "cloud"
       ELSE "none"

\* The session login() leaves: a form that is not let in leaves it as it was.
LoginSession(s, docs, via, u) ==
    IF via = "none" THEN s
    ELSE [logged_in |-> TRUE, username |-> u,
          role |-> IF via = "admin" THEN "admin"
                   ELSE IF via = "local" THEN "employee"
                   ELSE (CHOOSE d \in docs : d.id = u).role]

\* (mutant) any logged-in session passes
AnyLoggedIn(s) == s.logged_in

\* admin_required: session.get("role") != "admin" is turned away.
IsAdmin(s) == s.role = "admin"

\* ... to the employee dashboard when an employee is logged in, else to login.
AdminRedirect(s) ==
    IF s.logged_in /\ s.role = "employee" THEN "redirect employee_dashboard"
    ELSE "redirect login"

\* session.get("role") != "employee" is turned away (mark_attendance, update_task).
IsEmployee(s) == s.role = "employee"

\* ------------------------------------------------ capture session (app.py)
\* The request threads of the server.
Threads == {"t1", "t2"}

\* The position of a thread that serves no camera request.
Idle == <<"idle", "">>

\* camera.release() on the handle h.
Released(hs, h) == [hs EXCEPT ![h].released = TRUE]

\* release_camera() as one step: the handle, if any, released and the global
\* set to None.
AfterRelease(hs, c) == IF c # 0 THEN Released(hs, c) ELSE hs

\* A request thread takes up a camera request: start_camera, stop_camera,
\* video_feed or logout (whose first call is release_camera()).
CamRequest(t) ==
    /\ cpc[t] = Idle
    /\ \E op \in {"start", "stop", "feed", "logout"} :
        /\ cpc' = [cpc EXCEPT ![t] =
                     IF op \in {"start", "feed"} THEN <<op, "check">> ELSE <<op, "test">>]
        /\ cres' = [cres EXCEPT ![t] = ""]
    /\ cam' = [cam EXCEPT ![t] = 0]
    /\ UNCHANGED <<camera, handles>>
    /\ UNCHANGED <<clock, useFb, storeVars, scanVars, markVars, raceVars, respVars>>
    /\ UNCHANGED <<trainVars, appVars, taskVars, moreVars>>

\* get_camera, line 228: the test `camera is None`.
GetCheck(t) ==
    /\ cpc[t] \in {<<"start", "check">>, <<"feed", "check">>}
    /\ cpc' = [cpc EXCEPT ![t] = <<cpc[t][1], IF camera = 0 THEN "create" ELSE "return">>]
    /\ UNCHANGED <<camera, handles, cam, cres>>
    /\ UNCHANGED <<clock, useFb, storeVars, scanVars, markVars, raceVars, respVars>>
    /\ UNCHANGED <<trainVars, appVars, taskVars, moreVars>>

\* Line 229, right-hand side: cv2.VideoCapture(0) makes a handle; it raises
\* nothing when the device cannot be opened, the handle is then not opened.
GetCreate(t) ==
    /\ cpc[t] \in {<<"start", "create">>, <<"feed", "create">>}
    /\ Len(handles) < MaxHandles
    /\ \E opened \in BOOLEAN :
        handles' = Append(handles, [opened |-> opened, released |-> FALSE])
    /\ cam' = [cam EXCEPT ![t] = Len(handles) + 1]
    /\ cpc' = [cpc EXCEPT ![t] = <<cpc[t][1], "store">>]
    /\ UNCHANGED <<camera, cres>>
    /\ UNCHANGED <<clock, useFb, storeVars, scanVars, markVars, raceVars, respVars>>
    /\ UNCHANGED <<trainVars, appVars, taskVars, moreVars>>

\* Line 229, the assignment to the global.
GetStore(t) ==
    /\ cpc[t] \in {<<"start", "store">>, <<"feed", "store">>}
    /\ camera' = cam[t]
    /\ cpc' = [cpc EXCEPT ![t] = <<cpc[t][1], "return">>]
    /\ UNCHANGED <<handles, cam, cres>>
    /\ UNCHANGED <<clock, useFb, storeVars, scanVars, markVars, raceVars, respVars>>
    /\ UNCHANGED <<trainVars, appVars, taskVars, moreVars>>

\* Lines 230-232 and the caller: camera.set(...) and `return camera` read the
\* global again. start_camera answers "OK" whatever handle it got and
\* "ERROR" on an exception; gen_frames keeps the value as cam.
GetReturn(t) ==
    /\ cpc[t] \in {<<"start", "return">>, <<"feed", "return">>}
    /\ IF cpc[t][1] = "start"
       THEN /\ cres' = [cres EXCEPT ![t] =
                          IF cam[t] # 0 /\ camera = 0 THEN "ERROR" ELSE "OK"]
            /\ cpc' = [cpc EXCEPT ![t] = Idle]
            /\ UNCHANGED cam
       ELSE IF cam[t] # 0 /\ camera = 0
       THEN /\ cres' = [cres EXCEPT ![t] = "exception"]
            /\ cpc' = [cpc EXCEPT ![t] = Idle]
            /\ UNCHANGED cam
       ELSE /\ cam' = [cam EXCEPT ![t] = camera]
            /\ cpc' = [cpc EXCEPT ![t] = <<"feed", "read">>]
            /\ UNCHANGED cres
    /\ UNCHANGED <<camera, handles>>
    /\ UNCHANGED <<clock, useFb, storeVars, scanVars, markVars, raceVars, respVars>>
    /\ UNCHANGED <<trainVars, appVars, taskVars, moreVars>>

\* gen_frames, lines 245-253: cam.read(). A frame is sent and the loop goes
\* on, or the client goes away, or the read fails and the loop is left by
\* `break`, with nothing released and the global kept. A handle that is not
\* opened, or is released, gives no frame; cam may be None.
FeedRead(t) ==
    /\ cpc[t] = <<"feed", "read">>
    /\ \E ok \in BOOLEAN, gone \in BOOLEAN :
        IF cam[t] = 0
        THEN /\ cres' = [cres EXCEPT ![t] = "exception"]
             /\ cpc' = [cpc EXCEPT ![t] = Idle]
             /\ UNCHANGED camera
        ELSE IF ~ok \/ ~handles[cam[t]].opened \/ handles[cam[t]].released
        THEN /\ cres' = [cres EXCEPT ![t] = "read failed"]
             /\ cpc' = [cpc EXCEPT ![t] = Idle]
             /\ UNCHANGED camera
        ELSE IF gone
        THEN /\ cres' = [cres EXCEPT ![t] = "client gone"]
             /\ cpc' = [cpc EXCEPT ![t] = Idle]
             /\ UNCHANGED camera
        ELSE /\ cres' = [cres EXCEPT ![t] = "streaming"]
             /\ UNCHANGED <<cpc, camera>>
    /\ UNCHANGED <<handles, cam>>
    /\ UNCHANGED <<clock, useFb, storeVars, scanVars, markVars, raceVars, respVars>>
    /\ UNCHANGED <<trainVars, appVars, taskVars, moreVars>>

\* release_camera, line 237: the test `if camera`.
ReleaseTest(t) ==
    /\ cpc[t] \in {<<"stop", "test">>, <<"logout", "test">>}
    /\ cpc' = [cpc EXCEPT ![t] = <<cpc[t][1], IF camera # 0 THEN "release" ELSE "reset">>]
    /\ UNCHANGED <<camera, handles, cam, cres>>
    /\ UNCHANGED <<clock, useFb, storeVars, scanVars, markVars, raceVars, respVars>>
    /\ UNCHANGED <<trainVars, appVars, taskVars, moreVars>>

\* Line 238: camera.release() reads the global again; the AttributeError on
\* None is swallowed by the except of line 239.
ReleaseCall(t) ==
    /\ cpc[t] \in {<<"stop", "release">>, <<"logout", "release">>}
    /\ handles' = AfterRelease(handles, camera)
    /\ cpc' = [cpc EXCEPT ![t] = <<cpc[t][1], "reset">>]
    /\ UNCHANGED <<camera, cam, cres>>
    /\ UNCHANGED <<clock, useFb, storeVars, scanVars, markVars, raceVars, respVars>>
    /\ UNCHANGED <<trainVars, appVars, taskVars, moreVars>>

\* Line 241: camera = None, and the answer of the request.
ReleaseReset(t) ==
    /\ cpc[t] \in {<<"stop", "reset">>, <<"logout", "reset">>}
    /\ camera' = 0
    /\ cres' = [cres EXCEPT ![t] = IF cpc[t][1] = "stop" THEN "OK" ELSE "redirect login"]
    /\ cpc' = [cpc EXCEPT ![t] = Idle]
    /\ UNCHANGED <<handles, cam>>
    /\ UNCHANGED <<clock, useFb, storeVars, scanVars, markVars, raceVars, respVars>>
    /\ UNCHANGED <<trainVars, appVars, taskVars, moreVars>>

InitCamera ==
    /\ camera = 0
    /\ handles = <<>>
    /\ cpc = [t \in Threads |-> Idle]
    /\ cam = [t \in Threads |-> 0]
    /\ cres = [t \in Threads |-> ""]

\* --------------------------------- capture session with a lock (web_dashboard.py)
\* (mutant) the lock is entered whoever holds it
LockIgnored == TRUE

\* `with camera_lock:` is entered when no thread holds the lock.
LockFree == camera_lock = ""

\* (mutant) the flag is left as it was
ActiveKept == camera_active

\* stop_camera_instance, line 60: camera_active = False
ActiveAfterStop == FALSE

\* A request thread takes up a camera request: start_camera, stop_camera,
\* logout (session.clear(), then stop_camera_instance()) or video_feed, whose
\* generator begins with get_camera().
WdRequest(t) ==
    /\ wpc[t] = Idle
    /\ \E op \in {"start", "stop", "logout", "feed"} :
        /\ op \in {"start", "feed"} => Len(handles) < MaxHandles
        /\ wpc' = [wpc EXCEPT ![t] = <<op, "lock">>]
    /\ wcam' = [wcam EXCEPT ![t] = 0]
    /\ UNCHANGED <<wd_camera, camera_lock, camera_active>>
    /\ UNCHANGED <<clock, useFb, storeVars, scanVars, markVars, raceVars, respVars>>
    /\ UNCHANGED <<trainVars, appVars, taskVars, camVars, diskFails, effect, scan2Vars>>

\* get_camera, line 41: with camera_lock
WdGetLock(t) ==
    /\ wpc[t] \in {<<"start", "lock">>, <<"feed", "lock">>}
    /\ LockFree
    /\ camera_lock' = t
    /\ wpc' = [wpc EXCEPT ![t] = <<wpc[t][1], "check">>]
    /\ UNCHANGED <<wd_camera, camera_active, wcam>>
    /\ UNCHANGED <<clock, useFb, storeVars, scanVars, markVars, raceVars, respVars>>
    /\ UNCHANGED <<trainVars, appVars, taskVars, camVars, diskFails, effect, scan2Vars>>

\* Lines 42-46: a handle is made and stored when camera is None;
\* cv2.VideoCapture(0) raises nothing when the device cannot be opened.
WdGetCreate(t) ==
    /\ wpc[t] \in {<<"start", "check">>, <<"feed", "check">>}
    /\ IF wd_camera = 0
       THEN /\ \E opened \in BOOLEAN :
                 handles' = Append(handles, [opened |-> opened, released |-> FALSE])
            /\ wd_camera' = Len(handles) + 1
       ELSE UNCHANGED <<handles, wd_camera>>
    /\ wpc' = [wpc EXCEPT ![t] = <<wpc[t][1], "activate">>]
    /\ UNCHANGED <<camera_lock, camera_active, wcam>>
    /\ UNCHANGED <<camera, cpc, cam, cres>>
    /\ UNCHANGED <<clock, useFb, storeVars, scanVars, markVars, raceVars, respVars>>
    /\ UNCHANGED <<trainVars, appVars, taskVars, diskFails, effect, scan2Vars>>

\* Line 47, and the end of the with block.
WdGetActivate(t) ==
    /\ wpc[t] \in {<<"start", "activate">>, <<"feed", "activate">>}
    /\ camera_active' = TRUE
    /\ camera_lock' = ""
    /\ wpc' = [wpc EXCEPT ![t] = <<wpc[t][1], "return">>]
    /\ UNCHANGED <<wd_camera, wcam>>
    /\ UNCHANGED <<clock, useFb, storeVars, scanVars, markVars, raceVars, respVars>>
    /\ UNCHANGED <<trainVars, appVars, taskVars, camVars, diskFails, effect, scan2Vars>>

\* Line 48: `return camera` reads the global after the lock is given up.
\* start_camera answers; gen_frames keeps the value as cam (line 80).
WdGetReturn(t) ==
    /\ wpc[t] \in {<<"start", "return">>, <<"feed", "return">>}
    /\ IF wpc[t][1] = "start"
       THEN /\ wpc' = [wpc EXCEPT ![t] = Idle]
            /\ UNCHANGED wcam
       ELSE /\ wcam' = [wcam EXCEPT ![t] = wd_camera]
            /\ wpc' = [wpc EXCEPT ![t] = <<"feed", "loop">>]
    /\ UNCHANGED <<wd_camera, camera_lock, camera_active>>
    /\ UNCHANGED <<clock, useFb, storeVars, scanVars, markVars, raceVars, respVars>>
    /\ UNCHANGED <<trainVars, appVars, taskVars, camVars, diskFails, effect, scan2Vars>>

\* gen_frames, line 82: with camera_lock
WdFeedLock(t) ==
    /\ wpc[t] = <<"feed", "loop">>
    /\ LockFree
    /\ camera_lock' = t
    /\ wpc' = [wpc EXCEPT ![t] = <<"feed", "test">>]
    /\ UNCHANGED <<wd_camera, camera_active, wcam>>
    /\ UNCHANGED <<clock, useFb, storeVars, scanVars, markVars, raceVars, respVars>>
    /\ UNCHANGED <<trainVars, appVars, taskVars, camVars, diskFails, effect, scan2Vars>>

\* Lines 83-84: `if not camera_active or cam is None: break` leaves the with
\* block and the loop, and the generator ends; else cam.read() begins.
WdFeedTest(t) ==
    /\ wpc[t] = <<"feed", "test">>
    /\ IF ~camera_active \/ wcam[t] = 0
       THEN /\ camera_lock' = ""
            /\ wpc' = [wpc EXCEPT ![t] = Idle]
       ELSE /\ wpc' = [wpc EXCEPT ![t] = <<"feed", "read">>]
            /\ UNCHANGED camera_lock
    /\ UNCHANGED <<wd_camera, camera_active, wcam>>
    /\ UNCHANGED <<clock, useFb, storeVars, scanVars, markVars, raceVars, respVars>>
    /\ UNCHANGED <<trainVars, appVars, taskVars, camVars, diskFails, effect, scan2Vars>>

\* Lines 85-95: cam.read() returns and the with block ends. A handle that is
\* not opened, or is released, gives no frame; without a frame the loop
\* sleeps and goes on (lines 86-88), with one the frame is yielded.
WdFeedRead(t) ==
    /\ wpc[t] = <<"feed", "read">>
    /\ \E ok \in BOOLEAN :
        wpc' = [wpc EXCEPT ![t] =
                  IF ok /\ handles[wcam[t]].opened /\ ~handles[wcam[t]].released
                  THEN <<"feed", "yield">> ELSE <<"feed", "loop">>]
    /\ camera_lock' = ""
    /\ UNCHANGED <<wd_camera, camera_active, wcam>>
    /\ UNCHANGED <<clock, useFb, storeVars, scanVars, markVars, raceVars, respVars>>
    /\ UNCHANGED <<trainVars, appVars, taskVars, camVars, diskFails, effect, scan2Vars>>

\* Lines 94-95: the client takes the frame and the loop goes on.
WdFeedNext(t) ==
    /\ wpc[t] = <<"feed", "yield">>
    /\ wpc' = [wpc EXCEPT ![t] = <<"feed", "loop">>]
    /\ UNCHANGED <<wd_camera, camera_lock, camera_active, wcam>>
    /\ UNCHANGED <<clock, useFb, storeVars, scanVars, markVars, raceVars, respVars>>
    /\ UNCHANGED <<trainVars, appVars, taskVars, camVars, diskFails, effect, scan2Vars>>

\* Lines 94-95: the client has gone away; the server closes the generator at
\* its yield.
WdFeedClose(t) ==
    /\ wpc[t] = <<"feed", "yield">>
    /\ wpc' = [wpc EXCEPT ![t] = Idle]
    /\ UNCHANGED <<wd_camera, camera_lock, camera_active, wcam>>
    /\ UNCHANGED <<clock, useFb, storeVars, scanVars, markVars, raceVars, respVars>>
    /\ UNCHANGED <<trainVars, appVars, taskVars, camVars, diskFails, effect, scan2Vars>>

\* stop_camera_instance, line 53: with camera_lock
WdStopLock(t) ==
    /\ wpc[t] \in {<<"stop", "lock">>, <<"logout", "lock">>}
    /\ LockFree
    /\ camera_lock' = t
    /\ wpc' = [wpc EXCEPT ![t] = <<wpc[t][1], IF wd_camera # 0 THEN "release" ELSE "flag">>]
    /\ UNCHANGED <<wd_camera, camera_active, wcam>>
    /\ UNCHANGED <<clock, useFb, storeVars, scanVars, markVars, raceVars, respVars>>
    /\ UNCHANGED <<trainVars, appVars, taskVars, camVars, diskFails, effect, scan2Vars>>

\* Lines 54-59: camera.release() returns, and camera = None.
WdStopRelease(t) ==
    /\ wpc[t] \in {<<"stop", "release">>, <<"logout", "release">>}
    /\ handles' = Released(handles, wd_camera)
    /\ wd_camera' = 0
    /\ wpc' = [wpc EXCEPT ![t] = <<wpc[t][1], "flag">>]
    /\ UNCHANGED <<camera_lock, camera_active, wcam>>
    /\ UNCHANGED <<camera, cpc, cam, cres>>
    /\ UNCHANGED <<clock, useFb, storeVars, scanVars, markVars, raceVars, respVars>>
    /\ UNCHANGED <<trainVars, appVars, taskVars, diskFails, effect, scan2Vars>>

\* Line 60, the end of the with block, and the answer of the request.
WdStopFlag(t) ==
    /\ wpc[t] \in {<<"stop", "flag">>, <<"logout", "flag">>}
    /\ camera_active' = ActiveAfterStop
    /\ camera_lock' = ""
    /\ wpc' = [wpc EXCEPT ![t] = Idle]
    /\ UNCHANGED <<wd_camera, wcam>>
    /\ UNCHANGED <<clock, useFb, storeVars, scanVars, markVars, raceVars, respVars>>
    /\ UNCHANGED <<trainVars, appVars, taskVars, camVars, diskFails, effect, scan2Vars>>

\* The steps a request thread takes of itself, once it serves a request.
WdStep(t) ==
    \/ WdGetLock(t) \/ WdGetCreate(t) \/ WdGetActivate(t) \/ WdGetReturn(t)
    \/ WdFeedLock(t) \/ WdFeedTest(t) \/ WdFeedRead(t) \/ WdFeedNext(t)
    \/ WdStopLock(t) \/ WdStopRelease(t) \/ WdStopFlag(t)

\* ----------------------------------------------------------- tasks (app.py)
TaskCols == {"user", "task", "status", "date", "time", "created"}

\* The task texts and the status texts a form may carry.
TaskT1 == <<116, 49>>
TaskTexts == {TaskT1}
Pending == <<80, 101, 110, 100, 105, 110, 103>>
Done == <<68, 111, 110, 101>>

\* Line 384: status = request.form.get("status", "Pending"). A POST may carry
\* a status field or none; without one the default applies.
NoField == <<>>
StatusFields == {NoField, Done}

FormStatus(field) == IF field = NoField THEN Pending ELSE field

\* datetime.now().isoformat(), to the minute
FormatIsoformat(c) ==
    FormatIso(DateOf(c)) \o <<84>> \o TwoDigits(MinutesOf(c) \div 60)
        \o <<58>> \o TwoDigits(MinutesOf(c) % 60)

\* Line 407: [user, task, status, date, time, isoformat()]
TaskRow(user, task, status, c) ==
    [user |-> StrVal(user), task |-> StrVal(task), status |-> StrVal(status),
     date |-> StrVal(FormatDate(DateOf(c))),
     time |-> StrVal(FormatTimeHM(MinutesOf(c))),
     created |-> StrVal(FormatIsoformat(c))]

\* Lines 406-407: the tasks file read and the row appended in memory.
AssignDf(f, user, task, status, c) ==
    Append(ReadTable(f, TaskCols), TaskRow(user, task, status, c))

\* Lines 385-399: the document assign_task sets, under a new id.
TaskDoc(docs, user, task, status, c) ==
    [id |-> Len(docs) + 1, user |-> user, task |-> task, status |-> status,
     created |-> c, admin_seen |-> TRUE, employee_seen |-> FALSE]

\* Lines 434-438: the tasks file read and the status of the last row of the
\* user set; hit says whether the user has a row.
UserRows(df, user) == {i \in 1..Len(df) : df[i].user = StrVal(user)}

LastOf(S) == CHOOSE i \in S : \A j \in S : j <= i

UpdateDf(f, user, status) ==
    LET df == ReadTable(f, TaskCols)
        idx == UserRows(df, user)
    IN [hit |-> idx # {},
        df |-> IF idx = {} THEN df
               ELSE [df EXCEPT ![LastOf(idx)].status = StrVal(status)]]

\* Line 425: where("user","==",user).order_by("created", direction=None)
\* .limit(1). None is neither "ASCENDING" nor "DESCENDING": the client
\* library either rejects the direction (ValueError, caught at line 429) or
\* applies its default, ascending. In ascending order the one document
\* streamed is the first of the user with the least `created`.
QueryOutcomes == {"raises", "ascending"}

OldestOf(docs, user) ==
    {i \in 1..Len(docs) :
        /\ docs[i].user = user
        /\ \A j \in 1..Len(docs) : docs[j].user = user =>
              \/ docs[j].created > docs[i].created
              \/ docs[j].created = docs[i].created /\ j >= i}

\* Lines 424-430: the remote documents after the update, and `updated`.
UpdateRemote(docs, user, status, outcome) ==
    LET hit == IF outcome = "ascending" THEN OldestOf(docs, user) ELSE {}
    IN [updated |-> hit # {},
        docs |-> [i \in 1..Len(docs) |->
                     IF i \in hit
                     THEN [docs[i] EXCEPT !.status = status, !.admin_seen = FALSE]
                     ELSE docs[i]]]

\* (mutant) the local file is updated whatever the remote update did
FallsBackAlways(fb, updated) == TRUE

\* update_task, line 431: if not USE_FIREBASE or not updated
FallsBack(fb, updated) == ~fb \/ ~updated

\* ------------------------------------------ requests of one browser (app.py)
\* How the reads and writes of a local file go in one request: the file is
\* read and written, or pd.read_csv raises, or to_csv raises on opening the
\* file (which is then left as it was).
DiskOutcomes == IF diskFails THEN {"ok", "read fails", "write fails"} ELSE {"ok"}

\* What a request did: the store it updated ("remote", "local", "none"), how
\* its file access went and how its calls of the remote store went ("ok" when
\* all answered, else "fails"); empty where there was none.
Effect(store, disk, cloud) == [store |-> store, disk |-> disk, cloud |-> cloud]

NoEffect == Effect("", "", "")

CloudCall(ok) == IF ok THEN "ok" ELSE "fails"

\* The rows stored so far, for the bound on the requests that add one.
Stored == Len(users) + Len(tasks) + Len(rtasks) + Len(file)

\* POST /login
Login ==
    /\ resp = NoResp
    /\ \E u \in Usernames, p \in Passwords, cloudOk \in CloudAnswers :
        LET via == LoginVia(users, rusers, useFb, cloudOk, u, p) IN
        /\ session' = LoginSession(session, rusers, via, u)
        /\ resp' = IF via = "none"
                   THEN Answer("login", "login page", "Invalid username or password",
                               Arg(u, <<>>, <<>>))
                   ELSE Answer("login",
                               IF session'.role = "admin" THEN "redirect main_dashboard"
                               ELSE "redirect employee_dashboard",
                               "Logged in", Arg(u, <<>>, <<>>))
    /\ UNCHANGED <<users, rusers, tasks, rtasks, taskVars, camVars, moreVars>>
    /\ UNCHANGED <<clock, useFb, storeVars, scanVars, markVars, raceVars, respVars>>
    /\ UNCHANGED trainVars

\* GET /logout: release_camera(), session.clear()
Logout ==
    /\ resp = NoResp
    /\ handles' = AfterRelease(handles, camera)
    /\ camera' = 0
    /\ session' = NoSession
    /\ resp' = Answer("logout", "redirect login", "Logged out", Arg(<<>>, <<>>, <<>>))
    /\ UNCHANGED <<users, rusers, tasks, rtasks, taskVars, cpc, cam, cres, moreVars>>
    /\ UNCHANGED <<clock, useFb, storeVars, scanVars, markVars, raceVars, respVars>>
    /\ UNCHANGED trainVars

\* The roles the add-user form offers.
Roles == {"employee", "admin"}

FullName == <<70>>

\* POST /add-user, lines 506-551; cloudOk says that the Firestore writes succeed.
AddUser ==
    /\ resp = NoResp
    /\ \E uname \in Names \cup {<<>>}, cloudOk \in CloudAnswers, disk \in DiskOutcomes :
      \E role \in (IF cloudOk THEN Roles ELSE {"employee"}) :
        LET ldf == IF disk = "read fails" THEN <<>> ELSE safe_read_users(users)
            new == LocSet(ldf, Len(ldf), UserRow(uname, FullName, Pw, clock))
            arg == Arg(uname, <<>>, <<>>)
        IN IF ~IsAdmin(session)
           THEN /\ resp' = Answer("add_user", AdminRedirect(session), "", arg)
                /\ UNCHANGED <<users, rusers, effect>>
           ELSE IF uname = <<>>
           THEN /\ resp' = Answer("add_user", "redirect add_user",
                                  "Username and password required", arg)
                /\ UNCHANGED <<users, rusers, effect>>
           ELSE IF UserKnown(ldf, uname)
           THEN /\ resp' = Answer("add_user", "redirect add_user",
                                  "User already exists (Local)", arg)
                /\ effect' = Effect("none", "ok", "")
                /\ UNCHANGED <<users, rusers>>
           ELSE IF disk = "write fails"
           THEN /\ resp' = Answer("add_user", "redirect add_user",
                                  "Failed to add user (server)", arg)
                /\ effect' = Effect("none", disk, "")
                /\ UNCHANGED <<users, rusers>>
           ELSE /\ Len(new) <= MaxRows
                /\ Stored < MaxStored
                /\ effect' = Effect("local", disk, IF useFb THEN CloudCall(cloudOk) ELSE "")
                /\ users' = WriteLabelled(new)
                /\ rusers' = IF useFb /\ cloudOk
                             THEN DocSet(rusers, [id |-> uname,
                                                  password |-> hash_password(Pw),
                                                  role |-> role])
                             ELSE rusers
                /\ resp' = Answer("add_user", "redirect add_user",
                                  IF ~useFb THEN "User added successfully (Local only)"
                                  ELSE IF cloudOk THEN "User synced to Cloud and Local"
                                  ELSE "User added locally but Cloud sync failed", arg)
    /\ UNCHANGED <<session, tasks, rtasks, taskVars, camVars>>
    /\ UNCHANGED <<diskFails, lockVars, scan2Vars>>
    /\ UNCHANGED <<clock, useFb, storeVars, scanVars, markVars, raceVars, respVars>>
    /\ UNCHANGED trainVars

\* POST /assign-task, lines 381-413; cloudOk says that the Firestore write succeeds.
AssignTask ==
    /\ resp = NoResp
    /\ \E user \in Names, task \in TaskTexts, field \in StatusFields,
          cloudOk \in CloudAnswers, disk \in (IF useFb THEN {"ok"} ELSE DiskOutcomes) :
        LET status == FormStatus(field)
            arg == Arg(user, task, status)
        IN
        IF ~IsAdmin(session)
        THEN /\ resp' = Answer("assign_task", AdminRedirect(session), "", arg)
             /\ UNCHANGED <<tasks, rtasks, nAssigned, effect>>
        ELSE IF useFb
        THEN /\ cloudOk => Len(rtasks) < MaxRows
             /\ cloudOk => Stored < MaxStored
             /\ rtasks' = IF cloudOk
                          THEN Append(rtasks, TaskDoc(rtasks, user, task, status, clock))
                          ELSE rtasks
             /\ resp' = Answer("assign_task", "redirect assign_task",
                               IF cloudOk THEN "Task assigned and saved to Firestore"
                               ELSE "Task assigned but Firestore save failed", arg)
             /\ effect' = Effect(IF cloudOk THEN "remote" ELSE "none", "", CloudCall(cloudOk))
             /\ UNCHANGED <<tasks, nAssigned>>
        ELSE IF disk # "ok"
        THEN /\ resp' = Answer("assign_task", "redirect assign_task",
                               "Task assigned but local save failed", arg)
             /\ effect' = Effect("none", disk, "")
             /\ UNCHANGED <<tasks, rtasks, nAssigned>>
        ELSE /\ Len(tasks) < MaxRows
             /\ nAssigned < MaxRows
             /\ Stored < MaxStored
             /\ tasks' = WriteTable(AssignDf(tasks, user, task, status, clock))
             /\ nAssigned' = nAssigned + 1
             /\ resp' = Answer("assign_task", "redirect assign_task",
                               "Task assigned (local)", arg)
             /\ effect' = Effect("local", disk, "")
             /\ UNCHANGED rtasks
    /\ UNCHANGED <<users, rusers, session, gpc, gdf, upc, udf, camVars>>
    /\ UNCHANGED <<diskFails, lockVars, scan2Vars>>
    /\ UNCHANGED <<clock, useFb, storeVars, scanVars, markVars, raceVars, respVars>>
    /\ UNCHANGED trainVars

\* POST /update-task, lines 418-444.
UpdateTask ==
    /\ resp = NoResp
    /\ \E outcome \in (IF useFb THEN QueryOutcomes ELSE {"raises"}), disk \in DiskOutcomes :
        LET user == session.username
            arg == Arg(user, <<>>, Done)
            rem == UpdateRemote(rtasks, user, Done, outcome)
            loc == UpdateDf(tasks, user, Done)
            remote_hit == useFb /\ rem.updated
            local == FallsBack(useFb, remote_hit)
            local_hit == local /\ disk = "ok" /\ loc.hit
        IN IF ~IsEmployee(session)
           THEN /\ resp' = Answer("update_task", "redirect login", "", arg)
                /\ UNCHANGED <<tasks, rtasks, effect>>
           ELSE /\ disk = "read fails" => local
                /\ disk = "write fails" => local /\ loc.hit
                /\ rtasks' = IF remote_hit THEN rem.docs ELSE rtasks
                /\ tasks' = IF local_hit THEN WriteTable(loc.df) ELSE tasks
                /\ resp' = Answer("update_task", "redirect employee_dashboard",
                                  IF remote_hit \/ local_hit THEN "Task updated"
                                  ELSE "No task found to update", arg)
                /\ effect' = Effect(IF remote_hit THEN "remote"
                                    ELSE IF local_hit THEN "local" ELSE "none",
                                    IF local THEN disk ELSE "",
                                    IF useFb THEN CloudCall(outcome # "raises") ELSE "")
    /\ UNCHANGED <<users, rusers, session, taskVars, camVars>>
    /\ UNCHANGED <<diskFails, lockVars, scan2Vars>>
    /\ UNCHANGED <<clock, useFb, storeVars, scanVars, markVars, raceVars, respVars>>
    /\ UNCHANGED trainVars

\* POST /mark-attendance, lines 480-485.
MarkAttendance ==
    /\ resp = NoResp
    /\ \E disk \in DiskOutcomes :
       LET arg == Arg(session.username, <<>>, <<>>)
           df == IF disk = "read fails" THEN <<>> ELSE ReadCsv(file)
       IN
       IF ~IsEmployee(session)
       THEN /\ resp' = Answer("mark_attendance", "redirect login", "", arg)
            /\ UNCHANGED <<file, lastAdd, effect>>
       ELSE IF disk = "write fails"
       THEN /\ resp' = Answer("mark_attendance", "error 500", "", arg)
            /\ effect' = Effect("none", disk, "")
            /\ UNCHANGED <<file, lastAdd>>
       ELSE /\ Len(file) < MaxRows
            /\ Stored < MaxStored
            /\ effect' = Effect("local", disk, "")
            /\ file' = Rewrite(file, AddAttendanceDf(df, session.username, clock))
            /\ lastAdd' = [set |-> TRUE, name |-> session.username,
                           date |-> FormatDate(DateOf(clock)),
                           time |-> FormatTimeHM(MinutesOf(clock)), before |-> file]
            /\ resp' = Answer("mark_attendance", "redirect employee_dashboard",
                              "Attendance Marked Successfully!", arg)
    /\ UNCHANGED <<users, rusers, session, tasks, rtasks, taskVars, camVars>>
    /\ UNCHANGED <<diskFails, lockVars, scan2Vars>>
    /\ UNCHANGED <<clock, useFb, remote, scanVars, markVars, raceVars, loaded>>
    /\ UNCHANGED trainVars

\* The pages behind admin_required that read the attendance: the main
\* dashboard, the report and the export.
AdminPages == {"main_dashboard", "report", "export_excel"}

NoFilter == [name |-> <<>>, from |-> <<>>, to |-> <<>>]

\* GET of one of them, up to the return of load_attendance.
AdminPage ==
    /\ resp = NoResp
    /\ \E op \in AdminPages, fbOk \in CloudAnswers :
        IF ~IsAdmin(session)
        THEN /\ resp' = Answer(op, AdminRedirect(session), "", Arg(<<>>, <<>>, <<>>))
             /\ UNCHANGED loaded
        ELSE /\ resp' = Answer(op, "page", "", Arg(<<>>, <<>>, <<>>))
             /\ loaded' = LoadAttendanceApp(file, remote, useFb, fbOk, NoFilter)
    /\ UNCHANGED <<users, rusers, session, tasks, rtasks, taskVars, camVars, moreVars>>
    /\ UNCHANGED <<clock, useFb, storeVars, scanVars, markVars, raceVars, lastAdd>>
    /\ UNCHANGED trainVars

\* Line 599: where("user","==",user).where("employee_seen","==",False)
\* .limit(5); the limit is above the number of documents of the model.
\* (mutant) the unseen tasks of every user
UnreadByAnyone(docs, user) == {i \in 1..Len(docs) : ~docs[i].employee_seen}

UnreadBy(docs, user) ==
    {i \in 1..Len(docs) : docs[i].user = user /\ ~docs[i].employee_seen}

\* Line 595: where("admin_seen","==",False).limit(5)
AdminUnread(docs) == {i \in 1..Len(docs) : ~docs[i].admin_seen}

\* Lines 601-605: update({"employee_seen": True}) on the documents of S.
MarkSeen(docs, S) ==
    [i \in 1..Len(docs) |->
        IF i \in S THEN [docs[i] EXCEPT !.employee_seen = TRUE] ELSE docs[i]]

\* (mutant) the administrator's poll marks what it reported as seen
AfterAdminPollSeen(docs) ==
    [i \in 1..Len(docs) |-> [docs[i] EXCEPT !.admin_seen = TRUE]]

\* Lines 594-597: the administrator's branch writes nothing.
AfterAdminPoll(docs) == docs

\* GET /check-notifications, lines 585-620; cloudOk says that the query
\* answers, and `marked` are the documents whose update succeeds (a failed
\* update is passed over, line 604). Without Firestore the answer is always
\* the quiet one.
CheckNotifications ==
    /\ resp = NoResp
    /\ \E cloudOk \in CloudAnswers :
        LET user == session.username
            arg == Arg(user, <<>>, <<>>)
            unread == IF ~(useFb /\ cloudOk) THEN {}
                      ELSE IF IsAdmin(session) THEN AdminUnread(rtasks)
                      ELSE IF IsEmployee(session) THEN UnreadBy(rtasks, user)
                      ELSE {}
        IN \E marked \in (IF IsEmployee(session) THEN SUBSET unread ELSE {{}}) :
           IF ~session.logged_in
           THEN /\ resp' = Answer("check_notifications", "redirect login", "", arg)
                /\ UNCHANGED <<rtasks, effect>>
           ELSE /\ rtasks' = IF IsAdmin(session) THEN AfterAdminPoll(rtasks)
                             ELSE MarkSeen(rtasks, marked)
                /\ resp' = Answer("check_notifications",
                                  IF unread # {} THEN "popup" ELSE "quiet",
                                  IF unread = {} THEN ""
                                  ELSE IF IsAdmin(session) THEN "Employee updated a task"
                                  ELSE "New Task Assigned!", arg)
                /\ effect' = Effect(IF marked # {} THEN "remote" ELSE "none", "",
                                    IF useFb THEN CloudCall(cloudOk /\ marked = unread)
                                    ELSE "")
    /\ UNCHANGED <<users, rusers, session, tasks, taskVars, camVars>>
    /\ UNCHANGED <<diskFails, lockVars, scan2Vars>>
    /\ UNCHANGED <<clock, useFb, storeVars, scanVars, markVars, raceVars, respVars>>
    /\ UNCHANGED trainVars

\* The response is sent.
AppRespond ==
    /\ resp # NoResp
    /\ resp' = NoResp
    /\ loaded' = NoLoad
    /\ effect' = NoEffect
    /\ UNCHANGED <<users, rusers, session, tasks, rtasks, taskVars, camVars>>
    /\ UNCHANGED <<diskFails, lockVars, scan2Vars>>
    /\ UNCHANGED <<clock, useFb, storeVars, scanVars, markVars, raceVars, lastAdd>>
    /\ UNCHANGED trainVars

\* ------------------------------- assign_task beside update_task (local file)
\* assign_task of an administrator, lines 406-407.
AssignRead ==
    /\ ~useFb
    /\ gpc = "idle"
    /\ Len(tasks) < MaxRows
    /\ nAssigned < MaxRows
    /\ \E user \in Names, task \in TaskTexts, field \in StatusFields :
        gdf' = AssignDf(tasks, user, task, FormStatus(field), clock)
    /\ gpc' = "write"
    /\ UNCHANGED <<upc, udf, nAssigned, appVars, camVars, moreVars>>
    /\ UNCHANGED <<clock, useFb, storeVars, scanVars, markVars, raceVars, respVars>>
    /\ UNCHANGED trainVars

\* Line 408: the whole file rewritten from df.
AssignWrite ==
    /\ gpc = "write"
    /\ tasks' = WriteTable(gdf)
    /\ nAssigned' = nAssigned + 1
    /\ gdf' = <<>>
    /\ gpc' = "idle"
    /\ UNCHANGED <<upc, udf, users, rusers, session, rtasks, resp, camVars, moreVars>>
    /\ UNCHANGED <<clock, useFb, storeVars, scanVars, markVars, raceVars, respVars>>
    /\ UNCHANGED trainVars

\* update_task of an employee, lines 434-438; with no row of the user
\* nothing is written.
UpdateRead ==
    /\ ~useFb
    /\ upc = "idle"
    /\ \E user \in Names, status \in {Pending, Done} :
        LET r == UpdateDf(tasks, user, status) IN
        /\ r.hit
        /\ udf' = r.df
    /\ upc' = "write"
    /\ UNCHANGED <<gpc, gdf, nAssigned, appVars, camVars, moreVars>>
    /\ UNCHANGED <<clock, useFb, storeVars, scanVars, markVars, raceVars, respVars>>
    /\ UNCHANGED trainVars

\* Line 439: the whole file rewritten from df.
UpdateWrite ==
    /\ upc = "write"
    /\ tasks' = WriteTable(udf)
    /\ udf' = <<>>
    /\ upc' = "idle"
    /\ UNCHANGED <<gpc, gdf, nAssigned, users, rusers, session, rtasks, resp, camVars, moreVars>>
    /\ UNCHANGED <<clock, useFb, storeVars, scanVars, markVars, raceVars, respVars>>
    /\ UNCHANGED trainVars

\* The backend with the users file u, the local tasks file tk and nothing
\* stored remotely.
InitBackendWith(u, tk) ==
    /\ users = u
    /\ rusers = {}
    /\ session = NoSession
    /\ tasks = tk
    /\ rtasks = <<>>
    /\ resp = NoResp
    /\ gpc = "idle"
    /\ gdf = <<>>
    /\ upc = "idle"
    /\ udf = <<>>
    /\ nAssigned = 0
    /\ effect = NoEffect

\* ensure_files(), lines 89-97: the files are made with their header lines.
InitBackend == InitBackendWith(<<>>, <<>>)

\* users.csv after add_user has stored the employee bob, and tasks_local.csv
\* after assign_task has stored a task of bob, Firestore being disabled then.
OneUser == WriteLabelled(LocSet(<<>>, 0, UserRow(NameBob, FullName, Pw, 0)))

OldTasks == WriteTable(AssignDf(<<>>, NameBob, TaskT1, Pending, 0))

\* ------------------------------------------- the end of the recognition loop
\* Lines 41-57 stand in no try block: an exception of cvtColor (on the None
\* frame of a failed read), of detect_faces, of resize or of embeddings leaves
\* the loop and ends the process.
ScanRaise ==
    /\ spc = "frame"
    /\ spc' = "crashed"
    /\ UNCHANGED <<sim, sdate, stime, sdf, allLow, highDates>>
    /\ UNCHANGED <<clock, useFb, storeVars, markVars, raceVars, respVars>>
    /\ UNCHANGED <<trainVars, appVars, taskVars, camVars, moreVars>>

\* Lines 95-99: the quit key read after a frame is shown.
ScanQuit ==
    /\ spc = "frame"
    /\ spc' = "quit"
    /\ UNCHANGED <<sim, sdate, stime, sdf, allLow, highDates>>
    /\ UNCHANGED <<clock, useFb, storeVars, markVars, raceVars, respVars>>
    /\ UNCHANGED <<trainVars, appVars, taskVars, camVars, moreVars>>

\* The enrollment script before a run, over the folder `dir` and the model
\* directory in the state m.
InitEnrollment(dir, m) ==
    /\ facesDir = dir
    /\ modelDir = m.dir
    /\ modelFile = m.file
    /\ tpc = "start"
    /\ ti = 1
    /\ embeddings = <<>>
    /\ tmsg = ""
    /\ texit = "running"

\* Whether the local files can fail to be read or written during the run.
InitDisk(faults) == diskFails = faults

\* web_dashboard.py, lines 31-33, and its request threads.
InitLock ==
    /\ wd_camera = 0
    /\ camera_lock = ""
    /\ camera_active = FALSE
    /\ wpc = [t \in Threads |-> Idle]
    /\ wcam = [t \in Threads |-> 0]

\* No second scanner process runs until Launch Scanner is clicked.
InitScan2 ==
    /\ s2pc = Off
    /\ s2date = <<>>
    /\ s2time = <<>>
    /\ s2df = <<>>

\* The attendance processes start with nothing enrolled and no folder of images.
Init ==
    /\ InitAttendance
    /\ InitEnrollment(NoFolder, [dir |-> FALSE, file |-> NoFile])
    /\ InitBackend
    /\ InitCamera
    /\ InitDisk(FALSE)
    /\ InitLock
    /\ InitScan2

\* The scanner alone: a single process, the only writer of the file.
NextScan == ScanFace \/ ScanRead \/ ScanWrite \/ ScanMirror \/ Tick

SpecScan == Init /\ [][NextScan]_vars

\* Two scanner processes over the one attendance file and the one collection.
NextScanners ==
    \/ ScanFace \/ ScanRead \/ ScanWrite \/ ScanMirror
    \/ StartScanner \/ Scan2Face \/ Scan2Read \/ Scan2Write \/ Scan2Mirror
    \/ Tick

SpecScanners == Init /\ [][NextScanners]_vars

\* The scanner process and the web backend's mark-attendance request, each step
\* of one interleaved with the steps of the other: no lock is taken anywhere.
Next == ScanFace \/ ScanRead \/ ScanWrite \/ ScanMirror \/ MarkRead \/ MarkWrite \/ Tick

Spec == Init /\ [][Next]_vars

\* The writers and readers of the attendance file, one whole request (or one
\* whole scanner iteration) after the other.
NextWeb == WebMark \/ WebScan \/ WebUpload \/ WebLoad \/ WebRespond \/ Tick

SpecWeb == Init /\ [][NextWeb]_vars

\* One run of train_model.py, over any folder and any earlier model directory.
InitTrain ==
    /\ InitAttendance
    /\ \E dir \in Folders, m \in Models : InitEnrollment(dir, m)
    /\ InitBackend
    /\ InitCamera
    /\ InitDisk(FALSE)
    /\ InitLock
    /\ InitScan2

NextTrain == TrainStart \/ TrainImage \/ TrainSave

SpecTrain == InitTrain /\ [][NextTrain]_vars

\* The requests of one browser to app.py, one after the other.
NextApp ==
    \/ Login \/ Logout \/ AddUser \/ AssignTask \/ UpdateTask \/ MarkAttendance
    \/ AdminPage \/ AppRespond

SpecApp == Init /\ [][NextApp]_vars

\* The requests about tasks and notifications of one browser, on a server
\* that has run before: one employee and one task of theirs are in the local
\* files.
InitNotify ==
    /\ InitAttendance
    /\ InitEnrollment(NoFolder, [dir |-> FALSE, file |-> NoFile])
    /\ InitBackendWith(OneUser, OldTasks)
    /\ InitCamera
    /\ InitDisk(FALSE)
    /\ InitLock
    /\ InitScan2

NextNotify ==
    \/ Login \/ Logout \/ AssignTask \/ UpdateTask \/ CheckNotifications
    \/ AppRespond

SpecNotify == InitNotify /\ [][NextNotify]_vars

\* The same requests on a machine whose local files may fail to be read or
\* written.
InitFaults ==
    /\ InitAttendance
    /\ InitEnrollment(NoFolder, [dir |-> FALSE, file |-> NoFile])
    /\ InitBackend
    /\ InitCamera
    /\ InitDisk(TRUE)
    /\ InitLock
    /\ InitScan2

SpecFaults == InitFaults /\ [][NextApp]_vars

\* An assign_task request and an update_task request on their request
\* threads, each step of one interleaved with the steps of the other, while
\* the clock moves on.
NextTasks == AssignRead \/ AssignWrite \/ UpdateRead \/ UpdateWrite \/ Tick

SpecTasks == Init /\ [][NextTasks]_vars

\* The camera requests of app.py on two request threads, step by step.
NextCam ==
    \E t \in Threads :
        \/ CamRequest(t) \/ GetCheck(t) \/ GetCreate(t) \/ GetStore(t) \/ GetReturn(t)
        \/ FeedRead(t) \/ ReleaseTest(t) \/ ReleaseCall(t) \/ ReleaseReset(t)

SpecCam == Init /\ [][NextCam]_vars

\* The scanner alone, with the ways its loop ends.
NextLoop ==
    ScanFace \/ ScanRead \/ ScanWrite \/ ScanMirror \/ ScanRaise \/ ScanQuit \/ Tick

SpecLoop == Init /\ [][NextLoop]_vars

\* The camera requests of web_dashboard.py on two request threads, step by step.
NextLock == \E t \in Threads : WdRequest(t) \/ WdStep(t) \/ WdFeedClose(t)

SpecLock == Init /\ [][NextLock]_vars

\* ... where a thread that can again and again take a step of its request
\* takes one in the end: the interpreter runs its threads in turn, and a
\* thread that waits for the lock gets it at some time. The requests and the
\* going away of a client are not forced.
SpecLockFair == SpecLock /\ \A t \in Threads : SF_vars(WdStep(t))

\* ------------------------------------------------------------ claims
\* Rows of the file f that record `name` on the date `date` (both text).
CountFor(f, name, date) ==
    Cardinality({i \in 1..Len(f) : f[i].Name = name /\ f[i].Date = date})

\* C1: a face whose similarity is at or below 0.70 ends its iteration at once,
\* with the attendance file and the remote mirror unchanged; and as long as
\* no processed face was above the threshold no record exists anywhere.
C1_NoRecordAtOrBelowThreshold ==
    /\ [](allLow => file = <<>> /\ remote = <<>>)
    /\ [][spc = "frame" /\ sim' <= Threshold
            => spc' = "frame" /\ file' = file /\ remote' = remote]_vars

\* C1 witness: faces were processed, the last one exactly at the threshold and
\* none above it.
C1_Witness == sim = Threshold /\ allLow /\ spc = "frame"

\* C2: with the scanner as the only writer, once the iteration of a face above
\* the threshold is over the file holds exactly one record for (Aman, date),
\* for every date on which such a face was processed, never more than one at
\* any time, and an iteration that finds the record leaves the file unchanged.
C2_OneRecordPerDay ==
    /\ [](\A d \in highDates :
            /\ CountFor(file, NameAman, d) <= 1
            /\ (spc \in {"frame", "mirror"} => CountFor(file, NameAman, d) = 1))
    /\ [][spc # "frame" /\ CountFor(file, NameAman, sdate) = 1 => file' = file]_vars

\* C2 witness: two days were recorded, and a further qualifying face on the
\* second day has just been processed against its existing record.
C2_Witness ==
    /\ Cardinality(highDates) = 2
    /\ Len(file) = 2
    /\ spc = "read"
    /\ CountFor(file, NameAman, sdate) = 1

\* C4: a row written by one writer while the other holds an unsaved DataFrame
\* (it has read the file and not yet written it back) is gone from the file
\* once that other writer has written: fewer copies of it than right after its
\* own write. Both writers complete; an update is lost.
C4_LostUpdate ==
    /\ (atRiskA.set /\ spc # "write" => CountRow(file, atRiskA.row) < atRiskA.n)
    /\ (atRiskS.set /\ apc # "write" => CountRow(file, atRiskS.row) < atRiskS.n)

\* C4 witness: from the empty file the scanner and add_attendance have both
\* completed an append, and the file holds one row, the scanner's.
C4_Witness ==
    /\ atRiskA.set
    /\ spc \in {"frame", "mirror"}
    /\ apc = "idle"
    /\ Len(file) = 1
    /\ file[1].Name = NameAman
    /\ atRiskA.row.Name = NameBob

\* The day of a date as the program writes it (DD-MM-YYYY), -1 for any other text.
DayOfText(t) ==
    IF \E c \in 0..MaxTick : t = FormatDate(DateOf(c))
    THEN (CHOOSE c \in 0..MaxTick : t = FormatDate(DateOf(c))) \div 2
    ELSE -1

\* The day a filter bound names, -1 for any other text.
DayOfBound(t) ==
    IF \E c \in 0..MaxTick : t = FormatIso(DateOf(c))
    THEN (CHOOSE c \in 0..MaxTick : t = FormatIso(DateOf(c))) \div 2
    ELSE -1

\* Minutes since midnight of a 12-hour time text, "HH:MM AM" or "HH:MM:SS PM".
MinutesOfText(t) ==
    60 * ((Num2(t[1], t[2]) % 12) + (IF t[Len(t) - 1] = 80 THEN 12 ELSE 0))
        + Num2(t[4], t[5])

CountIn(rows, r) == Cardinality({i \in 1..Len(rows) : rows[i] = r})

\* The stored record r lies in the range of the last request's date bounds.
InBounds(r) ==
    /\ r.Date.ty = "str"
    /\ DayOfText(r.Date.tx) >= 0
    /\ DayOfBound(loaded.from) <= DayOfText(r.Date.tx)
    /\ DayOfText(r.Date.tx) <= DayOfBound(loaded.to)

\* The request carried both date bounds and no name pattern, and was answered.
DateRangeAnswered ==
    /\ loaded.kind = "ok"
    /\ loaded.name = <<>>
    /\ DayOfBound(loaded.from) >= 0
    /\ DayOfBound(loaded.to) >= 0

\* C3: the attendance file holds at most one record per (Name, Date).
C3_UniquePerNameDate ==
    \A i, j \in 1..Len(file) :
        i # j => ~(file[i].Name = file[j].Name /\ file[i].Date = file[j].Date)

\* C5: load_attendance with date_from = D1 and date_to = D2 (dates as a date
\* input submits them) returns exactly the stored records whose day-first Date
\* lies in [D1, D2]: every returned row is a stored record in the range, every
\* local record in the range is returned as often as it is stored, and every
\* remote document in the range is returned when the remote store was read.
C5_DateRangeExact ==
    DateRangeAnswered =>
        LET local == ReadCsv(file)
            docs == [i \in 1..Len(remote) |-> DocRecord(remote[i])]
        IN /\ \A i \in 1..Len(loaded.rows) :
                /\ InBounds(loaded.rows[i])
                /\ \/ CountIn(local, loaded.rows[i]) > 0
                   \/ loaded.merged /\ CountIn(docs, loaded.rows[i]) > 0
           /\ \A i \in 1..Len(local) :
                InBounds(local[i]) =>
                    CountIn(loaded.rows, local[i]) = CountIn(local, local[i])
           /\ \A i \in 1..Len(docs) :
                loaded.merged /\ InBounds(docs[i]) => CountIn(loaded.rows, docs[i]) > 0

\* C5 witness: a request with both bounds on the second day got back one of
\* two stored records; the other one is dated the first day.
C5_Witness ==
    /\ DateRangeAnswered
    /\ DayOfBound(loaded.from) = 1
    /\ DayOfBound(loaded.to) = 1
    /\ Len(file) = 2
    /\ Len(loaded.rows) = 1
    /\ \E i \in 1..2 : DayOfText(file[i].Date) = 0

\* C6: the returned rows are ordered most recent first: by date descending,
\* and within one date by time of day descending.
C6_MostRecentFirst ==
    loaded.kind = "ok" =>
        \A i, j \in 1..Len(loaded.rows) :
            LET a == loaded.rows[i]
                b == loaded.rows[j]
            IN (i < j /\ DayOfText(a.Date.tx) >= 0 /\ DayOfText(b.Date.tx) >= 0) =>
                \/ DayOfText(a.Date.tx) > DayOfText(b.Date.tx)
                \/ /\ DayOfText(a.Date.tx) = DayOfText(b.Date.tx)
                   /\ MinutesOfText(a.Time.tx) >= MinutesOfText(b.Time.tx)

\* C7: after add_attendance(name), load_attendance() without filters and with
\* the remote store disabled returns a record with the Name, Date and Time
\* that were written, and every record that was stored before the write.
C7_RoundTrip ==
    (lastAdd.set /\ loaded.kind # "none" /\ loaded.variant = "app" /\ ~useFb
        /\ loaded.name = <<>> /\ loaded.from = <<>> /\ loaded.to = <<>>) =>
        /\ loaded.kind = "ok"
        /\ CountIn(loaded.rows, [Name |-> StrVal(lastAdd.name),
                                 Date |-> StrVal(lastAdd.date),
                                 Time |-> StrVal(lastAdd.time)]) > 0
        /\ \A i \in 1..Len(lastAdd.before) :
            LET old == ReadCsv(lastAdd.before)
            IN CountIn(loaded.rows, old[i]) >= CountIn(old, old[i])

\* The embeddings the claim counts: of each file, in walk order, that has an
\* image extension, opens, shows at least one face and whose first face
\* embeds, the embedding of that first face.
Contributes(img) ==
    /\ \E ext \in valid_ext : EndsWith(LowerText(img.name), ext)
    /\ img.opens
    /\ img.faces # <<>>
    /\ img.faces[1].ok

RECURSIVE Contributing(_)
Contributing(files) ==
    IF files = <<>> THEN <<>>
    ELSE (IF Contributes(files[1]) THEN <<files[1].faces[1].emb>> ELSE <<>>)
         \o Contributing(Tail(files))

RECURSIVE Total(_, _)
Total(embs, i) == IF embs = <<>> THEN 0 ELSE embs[1][i] + Total(Tail(embs), i)

\* C8: a run in which no file contributes an embedding (the folder is missing
\* or empty, or every file is passed over) never changes the model directory
\* or the stored reference; it ends with one of the two failure lines as the
\* last line printed.
C8_NoWriteWithoutEmbeddings ==
    /\ [](Contributing(facesDir.files) = <<>> /\ tpc = "exited"
            => tmsg \in {"faces_new folder not found!",
                         "ERROR: No valid faces embedded!"})
    /\ [][Contributing(facesDir.files) = <<>>
            => modelDir' = modelDir /\ modelFile' = modelFile]_vars

C8_Witness ==
    /\ tpc = "exited"
    /\ Len(facesDir.files) >= 2
    /\ Contributing(facesDir.files) = <<>>
    /\ modelFile = OldRef

\* C9: a run in which k >= 1 files contribute ends with the stored reference
\* equal, component by component, to the sum of exactly those k first-face
\* embeddings divided by k.
C9_MeanOfFirstFaces ==
    tpc = "exited" /\ Contributing(facesDir.files) # <<>>
        => /\ modelDir
           /\ modelFile.den > 0
           /\ \A i \in Dim :
                modelFile.num[i] * Len(Contributing(facesDir.files))
                    = Total(Contributing(facesDir.files), i) * modelFile.den

C9_Witness ==
    /\ tpc = "exited"
    /\ Len(Contributing(facesDir.files)) = 2
    /\ Len(facesDir.files) >= 3
    /\ \E i \in 1..Len(facesDir.files) : facesDir.files[i] = ImgTwo

\* C10: when the mirror write is attempted the record is already the last row
\* of the local file; the attempt, failed or not, leaves the file unchanged
\* and the loop returns to the next face.
C10_MirrorAfterLocal ==
    /\ [](spc = "mirror" =>
            /\ file # <<>>
            /\ file[Len(file)] = [Name |-> NameAman, Date |-> sdate, Time |-> stime])
    /\ [][spc = "mirror" =>
            file' = file /\ (spc' = "frame" \/ UNCHANGED scanVars)]_vars

\* C10 witness: a mirror write has failed and the record is in the file.
C10_Witness ==
    /\ useFb
    /\ spc = "frame"
    /\ remote = <<>>
    /\ CountFor(file, NameAman, sdate) = 1

\* C11: once an assign_task request of the administrator is answered, the
\* task it carried is a row of the local tasks file, whatever the state of
\* the remote store.
C11_TaskSavedLocally ==
    resp.op = "assign_task" /\ resp.answer = "redirect assign_task"
        => \E i \in 1..Len(tasks) :
              tasks[i].user = resp.arg.user /\ tasks[i].task = resp.arg.task

\* C12: when gen_frames ends because cam.read() failed, the global camera is
\* None again.
C12_StreamEndResetsCamera ==
    [][\A t \in Threads :
          cpc[t] = <<"feed", "read">> /\ cpc'[t] = Idle /\ cres'[t] = "read failed"
              => camera' = 0]_vars

\* The handles created and not yet released.
OpenHandles == {h \in 1..Len(handles) : ~handles[h].released}

\* C13: at most one capture handle is created and not yet released, and each
\* such handle is the global camera or is about to be stored in it.
C13_OneHandleOpen ==
    /\ Cardinality(OpenHandles) <= 1
    /\ \A h \in OpenHandles :
          \/ camera = h
          \/ \E t \in Threads :
                cam[t] = h /\ cpc[t] \in {<<"start", "store">>, <<"feed", "store">>}

\* C14: a start_camera request whose capture device could not be opened is
\* not answered "OK" and leaves no handle in the global camera.
C14_AcquisitionFailureSurfaces ==
    \A t \in Threads :
        cpc[t] = Idle /\ cres[t] # "" /\ cam[t] # 0 /\ ~handles[cam[t]].opened
            => cres[t] # "OK" /\ camera # cam[t]

\* C15: the recognition loop has ended only by the quit key.
C15_LoopEndsOnQuitOnly == spc \in {"crashed", "quit"} => spc = "quit"

\* C16: the users file has one row per user name at most; an add_user request
\* keeps every row there was, as it was and where it was, and changes nothing
\* when the user name it carries is in the file.
C16_UsersUniqueAndKept ==
    /\ [](\A i, j \in 1..Len(users) : users[i].Username = users[j].Username => i = j)
    /\ [][resp = NoResp /\ resp'.op = "add_user"
            => /\ Len(users') >= Len(users)
               /\ \A i \in 1..Len(users) : users'[i] = users[i]
               /\ (\E i \in 1..Len(users) : users[i].Username = resp'.arg.user)
                     => users' = users]_vars

\* The position of the task of `user` created last: in the file the last of
\* the user's rows, in the remote collection the document with the greatest
\* `created` (the one inserted last among equals); 0 when the user has none.
LatestRow(f, user) ==
    IF \E i \in 1..Len(f) : f[i].user = user
    THEN CHOOSE i \in 1..Len(f) :
            f[i].user = user /\ \A j \in (i + 1)..Len(f) : f[j].user # user
    ELSE 0

LatestDoc(docs, user) ==
    IF \E i \in 1..Len(docs) : docs[i].user = user
    THEN CHOOSE i \in 1..Len(docs) :
            /\ docs[i].user = user
            /\ \A j \in 1..Len(docs) : docs[j].user = user =>
                  \/ docs[j].created < docs[i].created
                  \/ docs[j].created = docs[i].created /\ j <= i
    ELSE 0

\* C17: an update_task request of an employee who has a task in the store in
\* use (the remote collection when Firestore is on, else the file) sets the
\* status of the task created last and changes nothing else in either store.
C17_UpdatesLatestTaskOnly ==
    [][resp = NoResp /\ resp'.op = "update_task"
          /\ resp'.answer = "redirect employee_dashboard"
        => LET user == session.username
               k == LatestRow(tasks, user)
               r == LatestDoc(rtasks, user)
           IN IF useFb
              THEN r # 0 => /\ tasks' = tasks
                            /\ Len(rtasks') = Len(rtasks)
                            /\ rtasks'[r].status = resp'.arg.status
                            /\ \A i \in 1..Len(rtasks) : i # r => rtasks'[i] = rtasks[i]
              ELSE k # 0 => /\ rtasks' = rtasks
                            /\ Len(tasks') = Len(tasks)
                            /\ tasks'[k].status = resp'.arg.status
                            /\ \A i \in 1..Len(tasks) : i # k => tasks'[i] = tasks[i]]_vars

\* The routes behind admin_required.
AdminOps == {"add_user", "assign_task", "main_dashboard", "report", "export_excel"}

\* C18: a request to an admin-only route from a session whose role is not
\* admin is redirected and changes no user, no task and reads no attendance;
\* users and tasks are created by admin sessions only; and mark_attendance
\* and update_task change the attendance and the tasks for employee sessions
\* only.
C18_PermissionSplit ==
    [][resp = NoResp /\ resp' # NoResp
        => /\ (session.role # "admin" /\ resp'.op \in AdminOps
                 => /\ resp'.answer \in {"redirect login", "redirect employee_dashboard"}
                    /\ users' = users /\ rusers' = rusers
                    /\ tasks' = tasks /\ rtasks' = rtasks
                    /\ loaded' = loaded)
           /\ (users' # users \/ rusers' # rusers
                 => session.role = "admin" /\ resp'.op = "add_user")
           /\ (Len(tasks') > Len(tasks) \/ Len(rtasks') > Len(rtasks)
                 => session.role = "admin" /\ resp'.op = "assign_task")
           /\ (session.role # "employee" /\ resp'.op \in {"mark_attendance", "update_task"}
                 => /\ resp'.answer = "redirect login"
                    /\ file' = file /\ tasks' = tasks /\ rtasks' = rtasks)
           /\ (file' # file => session.role = "employee")]_vars

C18_Witness ==
    /\ session.role = "employee"
    /\ resp.op = "add_user"
    /\ resp.answer = "redirect employee_dashboard"
    /\ users # <<>>
    /\ Len(users) < MaxRows

\* f is the beginning of g.
IsPrefix(f, g) == Len(f) <= Len(g) /\ \A i \in 1..Len(f) : g[i] = f[i]

\* C19: every write of the attendance file leaves the rows it held before in
\* place and unchanged, the new rows after them.
C19_AppendOnly == [][IsPrefix(file, file')]_vars

\* C20: the tasks file holds at least as many rows as assign_task requests
\* have saved a task in it: no row written by assign_task is dropped.
C20_TasksNeverDeleted == Len(tasks) >= nAssigned

\* C21: every task assign_task creates, in the local file or in the remote
\* collection, has the status "Pending" when it is created, whatever the form of
\* the request carries.
C21_InitialStatusPending ==
    [][resp = NoResp /\ resp'.op = "assign_task" =>
          /\ Len(tasks') > Len(tasks) => tasks'[Len(tasks')].status = Pending
          /\ Len(rtasks') > Len(rtasks) => rtasks'[Len(rtasks')].status = Pending]_vars

\* C22: in web_dashboard.py, whatever the interleaving of start_camera,
\* stop_camera, logout and gen_frames on the request threads, at most one
\* capture handle is created and not yet released, and no thread is inside
\* camera.release() while another is inside cam.read() of gen_frames.
C22_LockKeepsOneHandle ==
    /\ Cardinality(OpenHandles) <= 1
    /\ \A t, u \in Threads :
          ~(wpc[t] = <<"feed", "read">> /\ wpc[u][2] = "release")

\* A stop request waits for the lock while gen_frames reads, on the second
\* handle of the run.
C22_Witness ==
    /\ Len(handles) >= 2
    /\ \E t, u \in Threads :
          wpc[t] = <<"feed", "read">> /\ wpc[u] \in {<<"stop", "lock">>, <<"logout", "lock">>}

\* The positions of a thread whose gen_frames runs its loop.
InFeedLoop(t) ==
    wpc[t] \in {<<"feed", "loop">>, <<"feed", "test">>, <<"feed", "read">>,
                <<"feed", "yield">>}

\* C23: in web_dashboard.py, once stop_camera_instance has run while a
\* gen_frames generator is in its loop, that generator ends, whatever requests
\* follow.
C23_StreamEndsAfterStop ==
    \A t \in Threads : (InFeedLoop(t) /\ ~camera_active) ~> ~InFeedLoop(t)

\* C28: in web_dashboard.py, whenever no thread holds camera_lock,
\* camera_active is true exactly when the global camera is not None.
C28_FlagMatchesHandle == camera_lock = "" => (camera_active <=> wd_camera # 0)

\* The lock is free after a camera was started, stopped and started again,
\* while a gen_frames of the first start still runs.
C28_Witness ==
    /\ camera_lock = ""
    /\ camera_active
    /\ Len(handles) >= 2
    /\ \E t \in Threads : InFeedLoop(t) /\ wcam[t] # wd_camera

\* The messages flashed in the category "success".
SuccessFlashes ==
    {"Attendance Marked Successfully!", "Task assigned (local)",
     "Task assigned and saved to Firestore", "Task updated",
     "User added successfully (Local only)", "User synced to Cloud and Local",
     "Logged in", "Logged out"}

\* C24: a mark_attendance, assign_task, update_task or add_user request during
\* which the read or the write of the local file failed is not answered with
\* a success message.
C24_FileFailureReported ==
    [][/\ resp = NoResp
       /\ resp'.op \in {"mark_attendance", "assign_task", "update_task", "add_user"}
       /\ effect'.disk \in {"read fails", "write fails"}
       => resp'.flash \notin SuccessFlashes]_vars

\* A poll of check_notifications by an employee, by an administrator.
EmployeePoll ==
    resp = NoResp /\ resp'.op = "check_notifications" /\ IsEmployee(session)

AdminPoll ==
    resp = NoResp /\ resp'.op = "check_notifications" /\ IsAdmin(session)

\* What C25 says of a poll of an employee: the answer is the popup exactly
\* when the remote store holds a task of that user not yet seen by them,
\* and after the poll those tasks, and no others, have become seen.
PollGated ==
    /\ resp'.answer = "popup" <=>
          \E i \in 1..Len(rtasks) :
              rtasks[i].user = session.username /\ ~rtasks[i].employee_seen
    /\ Len(rtasks') = Len(rtasks)
    /\ \A i \in 1..Len(rtasks) :
          rtasks'[i].employee_seen =
              (rtasks[i].employee_seen \/ rtasks[i].user = session.username)

AdminSeenStaysFalse ==
    \A i \in 1..Len(rtasks) : ~rtasks[i].admin_seen => ~rtasks'[i].admin_seen

C27_OneDocumentPerDay ==
    \A i, j \in DOMAIN remote :
        (remote[i].name = remote[j].name /\ remote[i].date = remote[j].date) => i = j

\* C30: an upload that is rejected (no file, not parsable, a column missing)
\* leaves the attendance file as it was; an upload that is accepted leaves the
\* rows the file held, in their order and unchanged, followed by exactly the
\* uploaded rows.
C30_UploadAllOrNothing ==
    [][\A up \in Uploads :
          UploadAttendance(up) =>
              IF up.kind = "table" THEN file' = file \o up.rows ELSE file' = file]_vars

====
